---- MODULE Spec2Model ----
(***************************************************************************)
(* A model of REBS (Really Easy Build System).                             *)
(*                                                                         *)
(* The module holds several state machines over one set of variables:      *)
(*   SpecIds    the persistent package-ID registry (package_id.cc)         *)
(*   SpecQueue  the staged command queue and its worker pool               *)
(*              (command_queue.cc, execute.cc)                             *)
(*   SpecBuild  the incremental build planner across invocations           *)
(*              (build.cc, dependencies.cc, timestamps.cc)                 *)
(*   SpecCons   metadata consolidation (package_metadata.cc)               *)
(*   SpecParse  the parser of compiler dependency files (dependencies.cc)  *)
(*   SpecStale  the staleness test within one invocation                   *)
(*              (dependencies.cc, timestamps.cc)                           *)
(*   SpecPackages  the package registry and the invocation                 *)
(*              (packages.cc, invocation.cc, main.cc, run.cc)              *)
(*   SpecAssets the asset walk of the planner (build.cc)                   *)
(*   SpecPlan   the planner of one invocation on any disk                  *)
(*              (build.cc, config.cc, package_metadata.cc)                 *)
(*   SpecReplace  placeholder substitution on every short text             *)
(*              (string_replace.cc, build.cc)                              *)
(*   SpecLink   the link commands of the applications of one invocation    *)
(*              (build.cc, string_replace.cc)                              *)
(*   SpecRepos  the repository map of the third-party packages             *)
(*              (third_party.cc)                                           *)
(*   SpecStore  the dependencies files as text and the store over several  *)
(*              invocations (dependencies.cc)                              *)
(* Each specification leaves the variables of the other machines at their  *)
(* initial values.                                                         *)
(***************************************************************************)
EXTENDS Integers, Sequences, FiniteSets, TLC

VARIABLES
  \* ---- package-ID registry (package_id.cc) and the disk it works on
  next_package_number,      \* size_t next_package_number
  package_path_to_id,       \* std::map<path, size_t>
  package_ids_invalidated,  \* bool
  package_ids_file,         \* <temp>/package_ids: NoFile or a sequence of lines
  existing_paths,           \* package directories that exist on disk
  scratch_dirs,             \* IDs whose <temp>/<id> directory exists
  id_pc,                    \* "off" (no process) or "running"
  id_cache,                 \* timestamps_by_filename restricted to package paths
  \* history of the registry, used only by the properties
  returned,                 \* path -> ID returned by GetIDOfPackageFromPath in this invocation
  prev_returned,            \* the same for the previous invocation
  existed_at_init,          \* the package directories on disk when InitializePackageIDs ran
  retired,                  \* {<<path, id>>} dropped by InitializePackageIDs in this invocation
  allocated,                \* paths given a new ID in this invocation
  flushed_once,             \* a FlushPackageIDs has completed
  \* ---- command queue (command_queue.cc)
  deferred_commands_by_stage, \* std::map<int, vector<DeferredCommand>>: stage -> command ids
  max_stage,                \* int max_stage
  queued_commands_count,    \* int queued_commands_count
  verbose,                  \* ShouldBeVerbose()
  number_of_parallel_tasks, \* GetNumberOfParallelTasks()
  q_pc,                     \* where the main thread is
  stage,                    \* RunQueuedCommands: the loop variable
  rq_successful,            \* RunQueuedCommands: successful
  current_command_number,   \* RunQueuedCommands: current_command_number
  combined_output,          \* RunQueuedCommands: output (ids of the commands whose text it holds)
  seq_index,                \* RunCommands: position of the range-for
  successful,               \* ExecuteStage: successful
  next_command_index,       \* ExecuteStage: next_command_index
  threads,                  \* ExecuteStage: the worker threads
  cmd_state,                \* per command: "queued", "running", "exit0", "exit1"
  recorded_deps,            \* commands for which SetDependenciesOfFile was called
  stderr_writes,            \* how often RunQueuedCommands wrote its buffer to std::cerr
  run_result,               \* what RunQueuedCommands returned: "none", "true", "false"
  \* ---- the worker pool of ExecuteStage (command_queue.cc, dependencies.cc)
  mutex,                    \* ExecuteStage: std::mutex mutex; the worker holding it, or Unlocked
  dependencies_mutex,       \* ExecuteStage: std::mutex dependencies_mutex; likewise
  using_dependency_file,    \* per command: its text holds ${deps file}
  thread_dependency_files,  \* <temp>/deps<n> on disk: the command whose compiler wrote it last
  thread_dependencies,      \* worker: the local vector dependencies
  dependency_records,       \* per command: what SetDependenciesOfFile was given for its file
  accesses,                 \* history: the shared objects the workers touched, and the mutexes held
  take_log,                 \* history: <<worker, command>> as get_next_deferred_command gave them
  spawn_count,              \* history: per command, how often a child was started for it
  \* ---- package metadata (package_metadata.cc)
  package_configs,          \* package name -> what its parsed config file holds
  metadata_by_package_name, \* std::map<std::string, std::unique_ptr<PackageMetadata>>
  metadata_requests,        \* number of GetMetadataForPackage calls so far
  last_metadata,            \* what the last GetMetadataForPackage returned: "none", "nullptr", "metadata"
  first_consolidated,       \* history: package name -> its consolidated fields after the first request
  \* ---- the dependency-file parser (dependencies.cc) ----
  dependency_file,          \* the file a compiler wrote: whether it opens, and its text
  rd_pc,                    \* "off", "written" (the command has exited), "read"
  dependencies_read,        \* what ReadDependenciesFromFile returned
  \* ---- the staleness test within one invocation ----
  st_pc,                    \* "off", "planning"
  set_to_now_after,         \* history: threshold answered false -> files set to now since
  \* ---- package registry and invocation (packages.cc, invocation.cc, main.cc) ----
  input_packages,           \* the arguments that name packages, in order
  all_known_packages,       \* --all was given
  local_config,             \* the working directory holds a local config
  disk_paths,               \* the explicit paths of the arguments that exist
  invocation_action,        \* "Build" or "Run"
  pk_pc,                    \* "off", "main", "initialized", "exited"
  packages_to_paths,        \* package name -> path
  registered_at_init,       \* history: packages_to_paths when InitializePackages returned
  registration_log,         \* history: the paths handed to RegisterPackagePath, in order
  unresolved_inputs,        \* history: the arguments GetPackagePath did not resolve
  build_returned,           \* what BuildPackages returned
  exit_code,                \* what main returned
  package_kinds,            \* package name -> what GetMetadataForPackage gives for it
  global_run_command,       \* the global config holds a run command
  run_queue,                \* the commands queued at Stage::Run
  run_returned,             \* "true" or "false" as RunPackages returned, "none" if not called
  main_calls,               \* history: what main called after InitializePackages, in order
  \* ---- the asset walk of the planner (build.cc) ----
  as_pc,                    \* "off", "walking"
  asset_walk,               \* the asset files ForEachAssetFile has still to give
  asset_log,                \* history: the calls of CopyAssetIfNewer
  \* ---- build planner across invocations (build.cc, dependencies.cc, timestamps.cc)
  now,                      \* the system clock
  mtime,                    \* file -> last write time on disk, 0 for a missing file
  dependencies_file,        \* package -> the content of <temp>/<id>/dependencies
  b_pc,                     \* "off" (no process), "planned", "executing"
  timestamps_by_filename,   \* the entries SetTimestampOfFileToNow put in the cache
  dependencies_per_file_per_package, \* package -> {object file -> dependencies}
  packages_with_invalidated_dependencies,
  planned_commands,         \* what BuildPackages queued: stage -> commands
  b_stage,                  \* RunQueuedCommands: the loop variable
  b_verbose,                \* IsVerbose() of the running process
  any_failure,              \* a command of this process exited non-zero
  build_ok,                 \* no command of this invocation has failed
  \* history of the builds, used only by the properties
  clean,                    \* the last invocation was a fully successful build
  touched                   \* files modified since the last invocation ended

VARIABLES
  \* ---- placeholder substitution (string_replace.cc)
  placeholders_and_values,  \* std::map<std::string, std::string>
  rp_template,              \* the command template a Compile command is made of
  rp_command,               \* the str ReplacePlaceholdersInString worked on, and its rounds
  rp_pc,                    \* "off", "planning", "planned"
  \* ---- the link commands of the applications (build.cc)
  lk_applications,          \* the applications in planning order: dynamically_linked_libaries of each
  lk_planned,               \* how many of them BuildPackage has planned
  lk_commands,              \* the commands queued at Stage::LinkApplication
  \* ---- the repository map (third_party.cc)
  repositories_file,        \* <temp>/repositories/repositories.json
  repository_dirs,          \* IDs whose directory <temp>/repositories/<id> exists
  repositories_to_ids,      \* global_repository_map.repositories_to_ids
  next_repository_id,       \* global_repository_map.next_repository_id
  needs_flushing,           \* global_repository_map.needs_flushing
  repository_map_loaded,    \* bool repository_map_loaded
  repo_pc,                  \* "off", "running"
  repo_runs,                \* how many processes have started
  \* history of the repository map, used only by the properties
  load_failed,              \* LoadRepositoriesMap of this process caught an exception
  removed_registered,       \* keys of the map whose directory GetRepositoryDirectory removed
  \* ---- the dependency store and its files (dependencies.cc)
  ds_files,                 \* package ID -> the dependencies file: is it there, its lines
  ds_dependencies,          \* dependencies_per_file_per_package, paths as text
  ds_invalidated,           \* packages_with_invalidated_dependencies
  ds_pc,                    \* "off", "running", "flushed"
  ds_sets,                  \* calls of SetDependenciesOfFile so far
  ds_runs,                  \* invocations so far
  \* history of the store, used only by the properties
  ds_written,               \* package ID -> the map WriteDependenciesForPackage wrote last
  ds_changed,               \* packages whose map a call changed in this invocation
  ds_rewritten,             \* packages FlushDependencies wrote in this invocation
  ds_last_set               \* the last call of SetDependenciesOfFile and what it found

idVars == <<next_package_number, package_path_to_id, package_ids_invalidated,
            package_ids_file, existing_paths, scratch_dirs, id_pc, id_cache,
            returned, prev_returned, existed_at_init, retired, allocated,
            flushed_once>>

queueVars == <<deferred_commands_by_stage, max_stage, queued_commands_count,
               verbose, number_of_parallel_tasks, q_pc, stage, rq_successful,
               current_command_number, combined_output, seq_index, successful,
               next_command_index, threads, cmd_state, recorded_deps,
               stderr_writes, run_result, mutex, dependencies_mutex,
               using_dependency_file, thread_dependency_files,
               thread_dependencies, dependency_records, accesses, take_log,
               spawn_count>>

\* The worker pool's part of the command queue.
poolVars == <<mutex, dependencies_mutex, using_dependency_file,
              thread_dependency_files, thread_dependencies,
              dependency_records, accesses, take_log, spawn_count>>

consVars == <<package_configs, metadata_by_package_name, metadata_requests,
              last_metadata, first_consolidated>>

buildVars == <<now, mtime, dependencies_file, b_pc, timestamps_by_filename,
               dependencies_per_file_per_package,
               packages_with_invalidated_dependencies, planned_commands,
               b_stage, b_verbose, any_failure, build_ok, clean, touched>>

parseVars == <<dependency_file, rd_pc, dependencies_read>>

staleVars == <<st_pc, set_to_now_after>>

pkgVars == <<input_packages, all_known_packages, local_config, disk_paths,
             invocation_action, pk_pc, packages_to_paths, registered_at_init,
             registration_log, unresolved_inputs, build_returned, exit_code,
             package_kinds, global_run_command, run_queue, run_returned,
             main_calls>>

assetVars == <<as_pc, asset_walk, asset_log>>

replVars == <<placeholders_and_values, rp_template, rp_command, rp_pc>>

linkVars == <<lk_applications, lk_planned, lk_commands>>

repoVars == <<repositories_file, repository_dirs, repositories_to_ids,
              next_repository_id, needs_flushing, repository_map_loaded,
              repo_pc, repo_runs, load_failed, removed_registered>>

storeVars == <<ds_files, ds_dependencies, ds_invalidated, ds_pc, ds_sets,
               ds_runs, ds_written, ds_changed, ds_rewritten, ds_last_set>>

\* The variables of the machines at the end of the module.
laterVars == <<replVars, linkVars, repoVars, storeVars>>

\* The variables of the machines before them.
earlierVars == <<idVars, queueVars, consVars, buildVars, parseVars, staleVars,
                 pkgVars, assetVars>>

vars == <<earlierVars, laterVars>>

\* What the actions of one machine leave alone.
otherThanIds ==
  <<queueVars, consVars, buildVars, parseVars, staleVars, pkgVars, assetVars,
    laterVars>>
otherThanQueue ==
  <<idVars, consVars, buildVars, parseVars, staleVars, pkgVars, assetVars,
    laterVars>>
otherThanCons ==
  <<idVars, queueVars, buildVars, parseVars, staleVars, pkgVars, assetVars,
    laterVars>>
otherThanBuild ==
  <<idVars, queueVars, consVars, parseVars, staleVars, pkgVars, assetVars,
    laterVars>>
otherThanParse ==
  <<idVars, queueVars, consVars, buildVars, staleVars, pkgVars, assetVars,
    laterVars>>
otherThanStale ==
  <<idVars, queueVars, consVars, parseVars, pkgVars, assetVars,
    laterVars>>
otherThanAssets ==
  <<idVars, queueVars, consVars, parseVars, staleVars, pkgVars, laterVars>>
otherThanPackages ==
  <<idVars, queueVars, consVars, buildVars, parseVars, staleVars, assetVars,
    laterVars>>

----------------------------------------------------------------------------
(* Bounds.                                                                 *)

\* Number of distinct package paths.
NumPaths == 2

\* Longest text of a dependency file.
MaxInputLen == 5

\* Latest modification time of a file when the staleness test is studied.
MaxStamp == 2

\* Most arguments of an invocation that name packages.
MaxInputs == 2

\* Allocation of new package IDs stops at this value of next_package_number.
MaxPackageId == 4
\* Number of commands QueueCommand accepts in one invocation.
MaxCommands == 3
\* Largest configured parallel_tasks value.
MaxParallelTasks == 2
MaxDefines == 2
MaxRequests == 2
MaxTime == 6
\* Longest command template given to ReplacePlaceholdersInString.
MaxTemplateLen == 6
\* Most applications planned in one invocation.
MaxApplications == 3
\* Allocation of repository IDs stops at this value of next_repository_id.
MaxRepositoryId == 3
\* Number of processes that work on the repository map, or on the dependency
\* store, one after the other.
MaxRuns == 2
\* Calls of SetDependenciesOfFile in the invocations of the dependency store.
MaxSets == 3

----------------------------------------------------------------------------
(* Small helpers.                                                          *)

Max(a, b) == IF a >= b THEN a ELSE b

Min(a, b) == IF a <= b THEN a ELSE b

Range(s) == {s[i] : i \in 1..Len(s)}

EmptyMap == [x \in {} |-> 0]

\* A local variable: `value` is computed once, then Body runs with it.
With(value, Body(_)) == CHOOSE result \in {Body(x) : x \in {value}} : TRUE

MapPut(m, k, v) == [x \in (DOMAIN m) \cup {k} |-> IF x = k THEN v ELSE m[x]]

----------------------------------------------------------------------------
(* Text conversions used by the package-ID file.                           *)

DigitChars == <<"0", "1", "2", "3", "4", "5", "6", "7", "8", "9">>

IsDigit(c) == \E d \in 1..10 : DigitChars[d] = c

DigitValue(c) == (CHOOSE d \in 1..10 : DigitChars[d] = c) - 1

\* std::to_string(size_t)
RECURSIVE to_string(_)
to_string(n) ==
  IF n < 10 THEN <<DigitChars[n + 1]>>
  ELSE to_string(n \div 10) \o <<DigitChars[(n % 10) + 1]>>

\* The digits consumed by std::strtoll(str, &last_char, 10): the longest
\* prefix of decimal digits.
RECURSIVE DigitPrefixLen(_)
DigitPrefixLen(s) ==
  IF s = <<>> \/ ~IsDigit(Head(s)) THEN 0 ELSE 1 + DigitPrefixLen(Tail(s))

RECURSIVE DigitsValue(_, _)
DigitsValue(s, acc) ==
  IF s = <<>> THEN acc ELSE DigitsValue(Tail(s), acc * 10 + DigitValue(Head(s)))

StrToLLAsCount(s) ==
  LET n == DigitPrefixLen(s) IN [parsed |-> n > 0, value |-> n]

\* strtoll as InitializePackageIDs uses it: parsed is FALSE when no character
\* was consumed (package_id_str.c_str() == last_char).
StrToLL(s) ==
  LET n == DigitPrefixLen(s) IN
    [parsed |-> n > 0, value |-> DigitsValue(SubSeq(s, 1, n), 0)]

----------------------------------------------------------------------------
(* Package paths.  Path p stands for the directory "/p<p>".                *)

Paths == 1..NumPaths

\* std::filesystem::path::string()
PathString(p) == <<"/", "p">> \o to_string(p)

NoPath == 0

\* The path a line of the file denotes; NoPath for a text that names no
\* directory of the model (such a directory does not exist on disk).
PathOfLine(line) ==
  IF \E p \in Paths : PathString(p) = line
  THEN CHOOSE p \in Paths : PathString(p) = line
  ELSE NoPath

NoFile == <<"no file">>

----------------------------------------------------------------------------
(* timestamps.cc restricted to package directories: a directory that       *)
(* exists has timestamp 1, a missing one 0; results are memoized.          *)

DiskTimestamp(disk, p) == IF p \in disk THEN 1 ELSE 0

\* GetTimestampOfFile: returns the timestamp and the updated cache.
GetTimestampOfPath(cache, disk, p) ==
  IF p \in DOMAIN cache
  THEN [ts |-> cache[p], cache |-> cache]
  ELSE [ts |-> DiskTimestamp(disk, p),
        cache |-> MapPut(cache, p, DiskTimestamp(disk, p))]

\* DoesFileExist
DoesPathExist(cache, disk, p) ==
  LET r == GetTimestampOfPath(cache, disk, p) IN
    [exists |-> r.ts # 0, cache |-> r.cache]

----------------------------------------------------------------------------
(* InitializePackageIDs.                                                   *)

\* What InitializePackageIDs does with one parsed entry.
RetireWithoutCleanup(st, path, package_id, ex) ==
  IF ex.exists
  THEN [st EXCEPT !.map = MapPut(st.map, path, package_id),
                  !.max = Max(st.max, package_id),
                  !.dirs = st.dirs \cup {package_id},
                  !.cache = ex.cache]
  ELSE [st EXCEPT !.cache = ex.cache,
                  !.retired = st.retired \cup {<<path, package_id>>}]

LoadEntry(st, path, package_id, ex) ==
  IF ex.exists
  THEN [st EXCEPT !.map = MapPut(st.map, path, package_id),
                  !.max = Max(st.max, package_id),
                  \* EnsureDirectoriesAndParentsExist(GetTempDirectoryPathForPackageID)
                  !.dirs = st.dirs \cup {package_id},
                  !.cache = ex.cache]
  ELSE [st EXCEPT \* GetTempDirectoryPathForPackageID creates the directory,
                  \* DeleteFolderIfItExists removes it.
                  !.dirs = st.dirs \ {package_id},
                  !.inval = TRUE,
                  !.cache = ex.cache,
                  !.retired = st.retired \cup {<<path, package_id>>}]

\* The while (true) loop over the lines of the file.
RECURSIVE LoadLoop(_, _, _)
LoadLoop(lines, st, disk) ==
  IF Len(lines) < 1 THEN st                \* getline(package_path) fails
  ELSE IF Len(lines) < 2 THEN st           \* getline(package_id_str) fails
  ELSE
    LET package_path == PathOfLine(lines[1])
        id == StrToLL(lines[2])
        rest == SubSeq(lines, 3, Len(lines))
    IN IF ~id.parsed THEN LoadLoop(rest, st, disk)
       ELSE LoadLoop(rest,
                     LoadEntry(st, package_path, id.value,
                               DoesPathExist(st.cache, disk, package_path)),
                     disk)

NextAfterLoadZero(max_package_number) == 0

\* next_package_number = max_package_number
NextAfterLoadSame(max_package_number) == max_package_number

\* next_package_number = max_package_number + 1
NextAfterLoad(max_package_number) == max_package_number + 1

\* The state of a fresh process: the statics of package_id.cc.
FreshIds(dirs) ==
  [map |-> EmptyMap, max |-> 0, dirs |-> dirs, inval |-> FALSE,
   cache |-> EmptyMap, retired |-> {}]

InitializePackageIDs ==
  /\ UNCHANGED otherThanIds
  /\ id_pc = "off"
  /\ id_pc' = "running"
  /\ LET st == IF package_ids_file = NoFile
               THEN FreshIds(scratch_dirs)
               ELSE LoadLoop(package_ids_file, FreshIds(scratch_dirs),
                             existing_paths)
     IN /\ package_path_to_id' = st.map
        /\ next_package_number' =
             IF package_ids_file = NoFile THEN 0 ELSE NextAfterLoad(st.max)
        /\ package_ids_invalidated' = st.inval
        /\ scratch_dirs' = st.dirs
        /\ id_cache' = st.cache
        /\ retired' = st.retired
  /\ existed_at_init' = existing_paths
  /\ returned' = EmptyMap
  /\ allocated' = {}
  /\ UNCHANGED <<package_ids_file, existing_paths, prev_returned, flushed_once>>

----------------------------------------------------------------------------
(* GetIDOfPackageFromPath.                                                 *)

GetIDOfPackageFromPath(package_path) ==
  /\ UNCHANGED otherThanIds
  /\ id_pc = "running"
  /\ package_path \in existing_paths
  /\ IF package_path \in DOMAIN package_path_to_id
     THEN /\ returned' = MapPut(returned, package_path,
                                package_path_to_id[package_path])
          /\ UNCHANGED <<next_package_number, package_path_to_id,
                         package_ids_invalidated, scratch_dirs, allocated>>
     ELSE /\ next_package_number < MaxPackageId
          /\ next_package_number' = next_package_number + 1
          /\ package_path_to_id' =
               MapPut(package_path_to_id, package_path, next_package_number)
          /\ package_ids_invalidated' = TRUE
          /\ scratch_dirs' = scratch_dirs \cup {next_package_number}
          /\ returned' = MapPut(returned, package_path, next_package_number)
          /\ allocated' = allocated \cup {package_path}
  /\ UNCHANGED <<package_ids_file, existing_paths, id_pc, id_cache,
                 prev_returned, existed_at_init, retired, flushed_once>>

----------------------------------------------------------------------------
(* FlushPackageIDs, after which the process exits.                         *)

\* The lines FlushPackageIDs writes: the map in key order, two lines each.
RECURSIVE FlushLinesFrom(_, _)
FlushLinesFrom(map, p) ==
  IF p > NumPaths THEN <<>>
  ELSE (IF p \in DOMAIN map
        THEN <<PathString(p), to_string(map[p])>>
        ELSE <<>>) \o FlushLinesFrom(map, p + 1)

FlushLines(map) == FlushLinesFrom(map, 1)

FlushPackageIDs ==
  /\ UNCHANGED otherThanIds
  /\ id_pc = "running"
  /\ id_pc' = "off"
  /\ package_ids_file' =
       IF package_ids_invalidated
       THEN FlushLines(package_path_to_id)
       ELSE package_ids_file
  /\ prev_returned' = returned
  /\ flushed_once' = TRUE
  /\ UNCHANGED <<next_package_number, package_path_to_id,
                 package_ids_invalidated, existing_paths, scratch_dirs,
                 id_cache, returned, existed_at_init, retired, allocated>>

----------------------------------------------------------------------------
(* The environment: package directories are deleted and re-created.        *)

DeletePath(p) ==
  /\ UNCHANGED otherThanIds
  /\ p \in existing_paths
  /\ existing_paths' = existing_paths \ {p}
  /\ UNCHANGED <<next_package_number, package_path_to_id,
                 package_ids_invalidated, package_ids_file, scratch_dirs,
                 id_pc, id_cache, returned, prev_returned, existed_at_init,
                 retired, allocated, flushed_once>>

CreatePath(p) ==
  /\ UNCHANGED otherThanIds
  /\ p \notin existing_paths
  /\ existing_paths' = existing_paths \cup {p}
  /\ UNCHANGED <<next_package_number, package_path_to_id,
                 package_ids_invalidated, package_ids_file, scratch_dirs,
                 id_pc, id_cache, returned, prev_returned, existed_at_init,
                 retired, allocated, flushed_once>>

IdleIds ==
  /\ next_package_number = 0
  /\ package_path_to_id = EmptyMap
  /\ package_ids_invalidated = FALSE
  /\ package_ids_file = NoFile
  /\ existing_paths = Paths
  /\ scratch_dirs = {}
  /\ id_pc = "off"
  /\ id_cache = EmptyMap
  /\ returned = EmptyMap
  /\ prev_returned = EmptyMap
  /\ existed_at_init = {}
  /\ retired = {}
  /\ allocated = {}
  /\ flushed_once = FALSE

----------------------------------------------------------------------------
(* The command queue: stage.h, command_queue.cc, execute.cc.               *)

StageCompile == 0
StageLinkLibrary == 1
StageLinkApplication == 2
StageCopyAssets == 3
StageRun == 4

Stages == StageCompile..StageRun

CommandIds == 1..MaxCommands

\* The commands in the queue.
Queued == UNION {Range(deferred_commands_by_stage[s]) :
                   s \in DOMAIN deferred_commands_by_stage}

\* The stage a queued command belongs to.
StageOf(c) ==
  CHOOSE s \in DOMAIN deferred_commands_by_stage :
    c \in Range(deferred_commands_by_stage[s])

NoThreads == [t \in {} |-> 0]

\* QueueCommand(stage, deferred_command); the command gets the next id.
QueueCommand(s) ==
  /\ q_pc = "planning"
  /\ queued_commands_count < MaxCommands
  /\ LET c == queued_commands_count + 1 IN
       IF s \notin DOMAIN deferred_commands_by_stage
       THEN /\ deferred_commands_by_stage' =
                 MapPut(deferred_commands_by_stage, s, <<c>>)
            /\ max_stage' = Max(max_stage, s)
       ELSE /\ deferred_commands_by_stage' =
                 [deferred_commands_by_stage EXCEPT ![s] = Append(@, c)]
            /\ UNCHANGED max_stage
  /\ queued_commands_count' = queued_commands_count + 1
  /\ \E uses \in (IF s = StageCompile THEN BOOLEAN ELSE {FALSE}) :
       using_dependency_file' =
         [using_dependency_file EXCEPT ![queued_commands_count + 1] = uses]
  /\ UNCHANGED <<verbose, number_of_parallel_tasks, q_pc, stage, rq_successful,
                 current_command_number, combined_output, seq_index,
                 successful, next_command_index, threads, cmd_state,
                 recorded_deps, stderr_writes, run_result>>
  /\ UNCHANGED <<mutex, dependencies_mutex, thread_dependency_files,
                 thread_dependencies, dependency_records, accesses, take_log,
                 spawn_count>>
  /\ UNCHANGED otherThanQueue

\* RunQueuedCommands: entry.
RunQueuedCommands ==
  /\ q_pc = "planning"
  /\ q_pc' = "stage_loop"
  /\ stage' = 0
  /\ current_command_number' = 1
  /\ rq_successful' = TRUE
  /\ combined_output' = <<>>
  /\ UNCHANGED <<deferred_commands_by_stage, max_stage, queued_commands_count,
                 verbose, number_of_parallel_tasks, seq_index, successful,
                 next_command_index, threads, cmd_state, recorded_deps,
                 stderr_writes, run_result>>
  /\ UNCHANGED poolVars
  /\ UNCHANGED otherThanQueue

\* ExecuteStage runs the commands one after the other for the Run stage and
\* for every stage when verbose.
IsSequential(s, v) == s = StageRun \/ v

ThreadCountIgnoringTasks(total_commands, parallel_tasks) == total_commands

\* int thread_count = std::min(total_commands, GetNumberOfParallelTasks())
ThreadCount(total_commands, parallel_tasks) ==
  Min(total_commands, parallel_tasks)

NewThread == [pc |-> "get", command |-> 0, thread_successful |-> TRUE,
              output |-> <<>>]

\* No worker holds the mutex.
Unlocked == 0 - 1

\* The mutexes worker thread_no holds.
HeldBy(thread_no) ==
  (IF mutex = thread_no THEN {"mutex"} ELSE {})
    \cup (IF dependencies_mutex = thread_no THEN {"dependencies_mutex"} ELSE {})

\* Worker thread_no touches the shared objects, reading or writing them.
Access(thread_no, objects, write) ==
  {[object |-> o, write |-> write, mutexes |-> HeldBy(thread_no)] :
     o \in objects}

\* kThreadDependencyFilePrefix
kThreadDependencyFilePrefix == <<"d", "e", "p", "s">>

GetSharedDependencyFilePath(thread_id) == kThreadDependencyFilePrefix

\* GetTempDirectoryPath() / (kThreadDependencyFilePrefix +
\* std::to_string(thread_id)), as the name within the temp directory.
GetTempDependencyFilePath(thread_id) ==
  kThreadDependencyFilePrefix \o to_string(thread_id)

\* The dependency files of the workers there can be.
ThreadDependencyFiles ==
  {kThreadDependencyFilePrefix}
    \cup {GetTempDependencyFilePath(thread_id) :
            thread_id \in 0..MaxParallelTasks}

\* std::vector<std::filesystem::path> dependencies, before it is filled.
NoDependencies == [kind |-> "none", of |-> 0]

\* One iteration of the for loop of RunQueuedCommands, up to the point where
\* ExecuteStage has chosen how to run the stage and has created its threads.
StageLoop ==
  /\ q_pc = "stage_loop"
  /\ IF stage > max_stage
     THEN /\ q_pc' = "epilogue"
          /\ UNCHANGED <<stage, seq_index, successful, next_command_index,
                         threads>>
     ELSE IF stage \notin DOMAIN deferred_commands_by_stage
     THEN /\ stage' = stage + 1            \* continue
          /\ UNCHANGED <<q_pc, seq_index, successful, next_command_index,
                         threads>>
     ELSE IF IsSequential(stage, verbose)
     THEN /\ q_pc' = "sequential"            \* RunCommands
          /\ seq_index' = 1
          /\ UNCHANGED <<stage, successful, next_command_index, threads>>
     ELSE /\ q_pc' = "parallel"
          /\ successful' = TRUE
          /\ next_command_index' = 0
          /\ threads' =
               [t \in 0..(ThreadCount(Len(deferred_commands_by_stage[stage]),
                                      number_of_parallel_tasks) - 1)
                  |-> NewThread]
          /\ UNCHANGED <<stage, seq_index>>
  /\ thread_dependencies' = [t \in DOMAIN threads' |-> NoDependencies]
  /\ accesses' =
       IF q_pc' = "parallel" /\ stage = StageCompile
       THEN accesses \cup UNION {Access(t, {"temp_directory_path"}, FALSE) :
                                   t \in DOMAIN threads'}
       ELSE accesses
  /\ UNCHANGED <<deferred_commands_by_stage, max_stage, queued_commands_count,
                 verbose, number_of_parallel_tasks, rq_successful,
                 current_command_number, combined_output, cmd_state,
                 recorded_deps, stderr_writes, run_result>>
  /\ UNCHANGED <<mutex, dependencies_mutex, using_dependency_file,
                 thread_dependency_files, dependency_records, take_log,
                 spawn_count>>
  /\ UNCHANGED otherThanQueue

\* RunCommands: std::system(command) starts the child and waits for it.
RunCommandsSpawn ==
  /\ q_pc = "sequential"
  /\ seq_index <= Len(deferred_commands_by_stage[stage])
  /\ q_pc' = "system"
  /\ cmd_state' = [cmd_state EXCEPT
                     ![deferred_commands_by_stage[stage][seq_index]] = "running"]
  /\ current_command_number' =
       IF verbose THEN current_command_number + 1 ELSE current_command_number
  /\ UNCHANGED <<deferred_commands_by_stage, max_stage, queued_commands_count,
                 verbose, number_of_parallel_tasks, stage, rq_successful,
                 combined_output, seq_index, successful, next_command_index,
                 threads, recorded_deps, stderr_writes, run_result>>
  /\ spawn_count' =
       [spawn_count EXCEPT
          ![deferred_commands_by_stage[stage][seq_index]] = @ + 1]
  /\ UNCHANGED <<mutex, dependencies_mutex, using_dependency_file,
                 thread_dependency_files, thread_dependencies,
                 dependency_records, accesses, take_log>>
  /\ UNCHANGED otherThanQueue

\* The child of std::system terminates; RunCommands ignores its status.
SystemReturns(status) ==
  /\ q_pc = "system"
  /\ q_pc' = "sequential"
  /\ cmd_state' = [cmd_state EXCEPT
                     ![deferred_commands_by_stage[stage][seq_index]] =
                        IF status = 0 THEN "exit0" ELSE "exit1"]
  /\ seq_index' = seq_index + 1
  /\ UNCHANGED <<deferred_commands_by_stage, max_stage, queued_commands_count,
                 verbose, number_of_parallel_tasks, stage, rq_successful,
                 current_command_number, combined_output, successful,
                 next_command_index, threads, recorded_deps, stderr_writes,
                 run_result>>
  /\ UNCHANGED poolVars
  /\ UNCHANGED otherThanQueue

\* RunCommands is through; ExecuteStage returns true.
RunCommandsReturn ==
  /\ q_pc = "sequential"
  /\ seq_index > Len(deferred_commands_by_stage[stage])
  /\ q_pc' = "stage_loop"
  /\ stage' = stage + 1
  /\ UNCHANGED <<deferred_commands_by_stage, max_stage, queued_commands_count,
                 verbose, number_of_parallel_tasks, rq_successful,
                 current_command_number, combined_output, seq_index,
                 successful, next_command_index, threads, cmd_state,
                 recorded_deps, stderr_writes, run_result>>
  /\ UNCHANGED poolVars
  /\ UNCHANGED otherThanQueue

scoped_lock_not_taken(holder, thread_no) == holder

\* std::scoped_lock lock(m): the mutex after worker thread_no has got it.
scoped_lock(holder, thread_no) == thread_no

\* A worker gets a mutex: std::scoped_lock in get_next_deferred_command,
\* before SetDependenciesOfFile, and at the end of a worker that saw a
\* failure.  The worker goes on only when no other worker holds the mutex.
WorkerLock(t) ==
  /\ q_pc = "parallel"
  /\ IF threads[t].pc = "get"
     THEN /\ mutex = Unlocked
          /\ mutex' = scoped_lock(mutex, t)
          /\ threads' = [threads EXCEPT ![t].pc = "get_locked"]
          /\ UNCHANGED dependencies_mutex
     ELSE IF threads[t].pc = "record"
     THEN /\ dependencies_mutex = Unlocked
          /\ dependencies_mutex' = scoped_lock(dependencies_mutex, t)
          /\ threads' = [threads EXCEPT ![t].pc = "record_locked"]
          /\ UNCHANGED mutex
     ELSE /\ threads[t].pc = "report"
          /\ ~threads[t].thread_successful
          /\ mutex = Unlocked
          /\ mutex' = scoped_lock(mutex, t)
          /\ threads' = [threads EXCEPT ![t].pc = "report_locked"]
          /\ UNCHANGED dependencies_mutex
  /\ UNCHANGED <<deferred_commands_by_stage, max_stage, queued_commands_count,
                 verbose, number_of_parallel_tasks, q_pc, stage, rq_successful,
                 current_command_number, combined_output, seq_index,
                 successful, next_command_index, cmd_state, recorded_deps,
                 stderr_writes, run_result>>
  /\ UNCHANGED <<using_dependency_file, thread_dependency_files,
                 thread_dependencies, dependency_records, accesses, take_log,
                 spawn_count>>
  /\ UNCHANGED otherThanQueue

\* get_next_deferred_command, under the queue mutex, which the end of the
\* call gives back.
WorkerGetNext(t) ==
  /\ q_pc = "parallel"
  /\ threads[t].pc = "get_locked"
  /\ IF next_command_index >= Len(deferred_commands_by_stage[stage])
     THEN /\ threads' = [threads EXCEPT ![t].pc = "report"]
          /\ accesses' =
               accesses \cup Access(t, {"next_command_index"}, FALSE)
          /\ UNCHANGED <<next_command_index, current_command_number,
                         take_log>>
     ELSE /\ threads' = [threads EXCEPT
                ![t].pc = "spawn",
                ![t].command =
                   deferred_commands_by_stage[stage][next_command_index + 1]]
          /\ next_command_index' = next_command_index + 1
          /\ current_command_number' = current_command_number + 1
          /\ take_log' =
               Append(take_log,
                      <<t, deferred_commands_by_stage[stage]
                             [next_command_index + 1]>>)
          /\ accesses' =
               accesses
                 \cup Access(t, {"next_command_index",
                                 "current_command_number"}, TRUE)
                 \cup Access(t, {"queued_commands_count"}, FALSE)
  /\ mutex' = Unlocked
  /\ UNCHANGED <<deferred_commands_by_stage, max_stage, queued_commands_count,
                 verbose, number_of_parallel_tasks, q_pc, stage, rq_successful,
                 combined_output, seq_index, successful, cmd_state,
                 recorded_deps, stderr_writes, run_result>>
  /\ UNCHANGED <<dependencies_mutex, using_dependency_file,
                 thread_dependency_files, thread_dependencies,
                 dependency_records, spawn_count>>
  /\ UNCHANGED otherThanQueue

\* ExecuteCommand: popen starts the child.
WorkerSpawn(t) ==
  /\ q_pc = "parallel"
  /\ threads[t].pc = "spawn"
  /\ threads' = [threads EXCEPT ![t].pc = "wait"]
  /\ cmd_state' = [cmd_state EXCEPT ![threads[t].command] = "running"]
  /\ UNCHANGED <<deferred_commands_by_stage, max_stage, queued_commands_count,
                 verbose, number_of_parallel_tasks, q_pc, stage, rq_successful,
                 current_command_number, combined_output, seq_index,
                 successful, next_command_index, recorded_deps, stderr_writes,
                 run_result>>
  /\ spawn_count' = [spawn_count EXCEPT ![threads[t].command] = @ + 1]
  /\ UNCHANGED <<mutex, dependencies_mutex, using_dependency_file,
                 thread_dependency_files, thread_dependencies,
                 dependency_records, accesses, take_log>>
  /\ UNCHANGED otherThanQueue

CapturedOutputAlways(output, command, status) == Append(output, command)

\* ExecuteCommand: what *opt_output holds afterwards.  The text read from the
\* pipe is kept in a local string and goes to the stream, after "Error
\* executing: <command>", only if the exit status is not EXIT_SUCCESS.
CapturedOutput(output, command, status) ==
  IF status = 0 THEN output ELSE Append(output, command)

AfterChildExitStoppingOnFailure(status, record_dependencies) ==
  IF status # 0 THEN "report"
  ELSE IF record_dependencies THEN "read" ELSE "get"

\* Where a worker goes on after ExecuteCommand has returned: to the dependencies
\* of the file after a successful command of a stage that records them, and
\* to the next get_next_deferred_command otherwise, also after a failure.
AfterChildExit(status, record_dependencies) ==
  IF status = 0 /\ record_dependencies THEN "read" ELSE "get"

\* ExecuteCommand: the child terminates and pclose returns its status.  On a
\* non-zero status the command and its output go to the worker's buffer.  A
\* compiler whose command named the worker's dependency file has written it.
WorkerChildExit(t, status) ==
  /\ q_pc = "parallel"
  /\ threads[t].pc = "wait"
  /\ cmd_state' = [cmd_state EXCEPT ![threads[t].command] =
                     IF status = 0 THEN "exit0" ELSE "exit1"]
  /\ threads' =
       IF status = 0
       THEN [threads EXCEPT
               ![t].pc = AfterChildExit(status, stage = StageCompile),
               ![t].output = CapturedOutput(@, threads[t].command, status)]
       ELSE [threads EXCEPT
               ![t].pc = AfterChildExit(status, stage = StageCompile),
               ![t].thread_successful = FALSE,
               ![t].output = CapturedOutput(@, threads[t].command, status)]
  /\ thread_dependency_files' =
       IF stage = StageCompile /\ using_dependency_file[threads[t].command]
       THEN [thread_dependency_files EXCEPT
               ![GetTempDependencyFilePath(t)] = threads[t].command]
       ELSE thread_dependency_files
  /\ UNCHANGED <<deferred_commands_by_stage, max_stage, queued_commands_count,
                 verbose, number_of_parallel_tasks, q_pc, stage, rq_successful,
                 current_command_number, combined_output, seq_index,
                 successful, next_command_index, recorded_deps, stderr_writes,
                 run_result>>
  /\ UNCHANGED <<mutex, dependencies_mutex, using_dependency_file,
                 thread_dependencies, dependency_records, accesses, take_log,
                 spawn_count>>
  /\ UNCHANGED otherThanQueue

\* What the worker takes as the dependencies of the file its command wrote:
\* ReadDependenciesFromFile(dependency_file), the list the last writer of the
\* file put there, if the command named the file, else the source file of
\* the command.
WorkerReadDependencies(t) ==
  /\ q_pc = "parallel"
  /\ threads[t].pc = "read"
  /\ threads' = [threads EXCEPT ![t].pc = "record"]
  /\ thread_dependencies' =
       [thread_dependencies EXCEPT ![t] =
          IF using_dependency_file[threads[t].command]
          THEN [kind |-> "parsed",
                of |-> thread_dependency_files[GetTempDependencyFilePath(t)]]
          ELSE [kind |-> "source_file", of |-> threads[t].command]]
  /\ UNCHANGED <<deferred_commands_by_stage, max_stage, queued_commands_count,
                 verbose, number_of_parallel_tasks, q_pc, stage, rq_successful,
                 current_command_number, combined_output, seq_index,
                 successful, next_command_index, cmd_state, recorded_deps,
                 stderr_writes, run_result>>
  /\ UNCHANGED <<mutex, dependencies_mutex, using_dependency_file,
                 thread_dependency_files, dependency_records, accesses,
                 take_log, spawn_count>>
  /\ UNCHANGED otherThanQueue

\* record_dependencies: SetDependenciesOfFile under dependencies_mutex, which
\* the end of the block gives back.
WorkerRecordDependencies(t) ==
  /\ q_pc = "parallel"
  /\ threads[t].pc = "record_locked"
  /\ threads' = [threads EXCEPT ![t].pc = "get"]
  /\ recorded_deps' = recorded_deps \cup {threads[t].command}
  /\ dependency_records' =
       [dependency_records EXCEPT ![threads[t].command] =
          thread_dependencies[t]]
  /\ accesses' =
       accesses \cup Access(t, {"dependencies_per_file_per_package",
                                "packages_with_invalidated_dependencies"},
                            TRUE)
  /\ dependencies_mutex' = Unlocked
  /\ UNCHANGED <<deferred_commands_by_stage, max_stage, queued_commands_count,
                 verbose, number_of_parallel_tasks, q_pc, stage, rq_successful,
                 current_command_number, combined_output, seq_index,
                 successful, next_command_index, cmd_state, stderr_writes,
                 run_result>>
  /\ UNCHANGED <<mutex, using_dependency_file, thread_dependency_files,
                 thread_dependencies, take_log, spawn_count>>
  /\ UNCHANGED otherThanQueue

\* The end of a worker: a worker that saw a failure appends its buffer to
\* combined_output and clears successful, under the queue mutex; a worker
\* that saw none ends without a word.
WorkerReport(t) ==
  /\ q_pc = "parallel"
  /\ threads' = [threads EXCEPT ![t].pc = "done"]
  /\ IF threads[t].pc = "report_locked"
     THEN /\ combined_output' = combined_output \o threads[t].output
          /\ successful' = FALSE
          /\ accesses' =
               accesses \cup Access(t, {"combined_output", "successful"}, TRUE)
          /\ mutex' = Unlocked
     ELSE /\ threads[t].pc = "report"
          /\ threads[t].thread_successful
          /\ UNCHANGED <<combined_output, successful, accesses, mutex>>
  /\ UNCHANGED <<deferred_commands_by_stage, max_stage, queued_commands_count,
                 verbose, number_of_parallel_tasks, q_pc, stage, rq_successful,
                 current_command_number, seq_index, next_command_index,
                 cmd_state, recorded_deps, stderr_writes, run_result>>
  /\ UNCHANGED <<dependencies_mutex, using_dependency_file,
                 thread_dependency_files, thread_dependencies,
                 dependency_records, take_log, spawn_count>>
  /\ UNCHANGED otherThanQueue

GoesOnRegardless(stage_successful) == TRUE

\* RunQueuedCommands goes on to the next stage only if ExecuteStage returned
\* true; otherwise it clears successful and breaks out of the loop.
GoesOnAfterStage(stage_successful) == stage_successful

\* for (auto& thread : threads) thread.join(); return successful;
JoinThreads ==
  /\ q_pc = "parallel"
  /\ \A t \in DOMAIN threads : threads[t].pc = "done"
  /\ IF GoesOnAfterStage(successful)
     THEN /\ q_pc' = "stage_loop"
          /\ stage' = stage + 1
          /\ UNCHANGED rq_successful
     ELSE /\ q_pc' = "epilogue"
          /\ rq_successful' = FALSE
          /\ UNCHANGED stage
  /\ threads' = NoThreads
  /\ thread_dependencies' = NoThreads
  /\ UNCHANGED <<deferred_commands_by_stage, max_stage, queued_commands_count,
                 verbose, number_of_parallel_tasks, current_command_number,
                 combined_output, seq_index, successful, next_command_index,
                 cmd_state, recorded_deps, stderr_writes, run_result>>
  /\ UNCHANGED <<mutex, dependencies_mutex, using_dependency_file,
                 thread_dependency_files, dependency_records, accesses,
                 take_log, spawn_count>>
  /\ UNCHANGED otherThanQueue

\* RunQueuedCommands: after the loop.
RunQueuedCommandsReturn ==
  /\ q_pc = "epilogue"
  /\ q_pc' = "returned"
  /\ IF ~rq_successful
     THEN /\ stderr_writes' = stderr_writes + 1
          /\ run_result' = "false"
     ELSE /\ run_result' = "true"
          /\ UNCHANGED stderr_writes
  /\ UNCHANGED <<deferred_commands_by_stage, max_stage, queued_commands_count,
                 verbose, number_of_parallel_tasks, stage, rq_successful,
                 current_command_number, combined_output, seq_index,
                 successful, next_command_index, threads, cmd_state,
                 recorded_deps>>
  /\ UNCHANGED poolVars
  /\ UNCHANGED otherThanQueue

IdleQueue ==
  /\ deferred_commands_by_stage = EmptyMap
  /\ max_stage = 0
  /\ queued_commands_count = 0
  /\ q_pc = "planning"
  /\ stage = 0
  /\ rq_successful = TRUE
  /\ current_command_number = 1
  /\ combined_output = <<>>
  /\ seq_index = 1
  /\ successful = TRUE
  /\ next_command_index = 0
  /\ threads = NoThreads
  /\ cmd_state = [c \in CommandIds |-> "queued"]
  /\ recorded_deps = {}
  /\ stderr_writes = 0
  /\ run_result = "none"
  /\ mutex = Unlocked
  /\ dependencies_mutex = Unlocked
  /\ using_dependency_file = [c \in CommandIds |-> FALSE]
  /\ thread_dependency_files = [f \in ThreadDependencyFiles |-> 0]
  /\ thread_dependencies = NoThreads
  /\ dependency_records = [c \in CommandIds |-> NoDependencies]
  /\ accesses = {}
  /\ take_log = <<>>
  /\ spawn_count = [c \in CommandIds |-> 0]

\* The command queue of a process in which nothing is queued.
IdleQueueConfig ==
  /\ IdleQueue
  /\ verbose = FALSE
  /\ number_of_parallel_tasks = 1

----------------------------------------------------------------------------
(* Package metadata: package_metadata.cc.                                  *)
(*                                                                         *)
(* package_configs[name] is what LoadConfigFileForPackage and              *)
(* ParseConfigIntoMetadata get for the package of that name; a name that   *)
(* is not in its domain is not registered (GetPackagePathFromName returns  *)
(* an empty path).  Strings that the code takes apart (defines) are        *)
(* sequences of characters.                                                *)

\* The default include priority of a package if one isn't defined.
kDefaultIncludePriority == 1000

\* The characters of defines, in the order of their char values.
DefineChars == <<"-", "A", "B">>

CharRank(c) == CHOOSE i \in 1..Len(DefineChars) : DefineChars[i] = c

\* std::string::operator<
RECURSIVE StringLess(_, _)
StringLess(a, b) ==
  IF b = <<>> THEN FALSE
  ELSE IF a = <<>> THEN TRUE
  ELSE IF Head(a) = Head(b) THEN StringLess(Tail(a), Tail(b))
  ELSE CharRank(Head(a)) < CharRank(Head(b))

RECURSIVE SetInReverseOrder(_)
SetInReverseOrder(S) ==
  IF S = {} THEN <<>>
  ELSE LET first == CHOOSE x \in S : \A y \in S \ {x} : StringLess(y, x)
       IN <<first>> \o SetInReverseOrder(S \ {first})

\* The elements of a std::set<std::string> in the order a range-for visits them.
RECURSIVE SetInOrder(_)
SetInOrder(S) ==
  IF S = {} THEN <<>>
  ELSE LET first == CHOOSE x \in S : \A y \in S \ {x} : StringLess(x, y)
       IN <<first>> \o SetInOrder(S \ {first})

NewMetadataLeaking(config, package_name) ==
  [type |-> config.type,
   package_path |-> package_name,
   dependencies |-> config.dependencies,
   defines |-> config.defines,
   public_defines |-> config.public_defines \o config.defines,
   include_directories |-> config.include_directories,
   public_include_directories |-> config.public_include_directories,
   existing_directories |-> config.existing_directories,
   include_priorty |-> config.include_priorty,
   no_output_file |-> config.no_output_file,
   metadata_timestamp |-> config.timestamp,
   output_object |-> <<"temp", package_name>>,
   has_consolidated_information |-> FALSE,
   consolidated_defines |-> <<>>,
   consolidated_dependencies |-> <<>>,
   consolidated_includes |-> <<>>,
   consolidated_library_objects |-> <<>>]

\* The metadata GetUnconsolidatedMetadataForPackage creates from a config.
NewMetadata(config, package_name) ==
  [type |-> config.type,
   package_path |-> package_name,
   dependencies |-> config.dependencies,
   defines |-> config.defines,
   public_defines |-> config.public_defines,
   include_directories |-> config.include_directories,
   public_include_directories |-> config.public_include_directories,
   existing_directories |-> config.existing_directories,
   include_priorty |-> config.include_priorty,
   no_output_file |-> config.no_output_file,
   metadata_timestamp |-> config.timestamp,
   output_object |-> <<"temp", package_name>>,
   has_consolidated_information |-> FALSE,
   consolidated_defines |-> <<>>,
   consolidated_dependencies |-> <<>>,
   consolidated_includes |-> <<>>,
   consolidated_library_objects |-> <<>>]

\* Returns the metadata map; the result is nullptr exactly if package_name is
\* not in the returned map.
GetUnconsolidatedMetadataForPackage(store, configs, package_name) ==
  IF package_name \in DOMAIN store THEN store
  ELSE IF package_name \notin DOMAIN configs THEN store
  ELSE MapPut(store, package_name,
              NewMetadata(configs[package_name], package_name))

\* add_dependency pushing to the front of the queue.
add_dependency_to_front(acc, dependency) ==
  IF dependency \in acc.encountered_dependencies THEN acc
  ELSE [acc EXCEPT !.encountered_dependencies = @ \cup {dependency},
                   !.dependencies_to_visit = <<dependency>> \o @]

\* auto add_dependency
add_dependency(acc, dependency) ==
  IF dependency \in acc.encountered_dependencies THEN acc
  ELSE [acc EXCEPT !.encountered_dependencies = @ \cup {dependency},
                   !.dependencies_to_visit = Append(@, dependency)]

RECURSIVE AddDependencies(_, _)
AddDependencies(acc, dependencies) ==
  IF dependencies = <<>> THEN acc
  ELSE AddDependencies(add_dependency(acc, Head(dependencies)),
                       Tail(dependencies))

add_define_erasing(acc, define) ==
  IF Len(define) > 0 /\ define[1] = "-"
  THEN [acc EXCEPT !.defines = @ \ {Tail(define)}]
  ELSE [acc EXCEPT !.defines = @ \cup {define}]

\* auto add_define
add_define(acc, define) ==
  IF Len(define) > 0 /\ define[1] = "-"
  THEN [acc EXCEPT !.undefines = @ \cup {Tail(define)}]
  ELSE [acc EXCEPT !.defines = @ \cup {define}]

RECURSIVE AddDefines(_, _)
AddDefines(acc, defines) ==
  IF defines = <<>> THEN acc
  ELSE AddDefines(add_define(acc, Head(defines)), Tail(defines))

\* auto add_include_directory; owner is the package whose directory it is.
add_include_directory(acc, owner, include_directory, priority) ==
  IF include_directory \notin owner.existing_directories THEN acc
  ELSE LET path == <<owner.package_path, include_directory>>
           buckets == acc.include_paths_by_priority
       IN [acc EXCEPT !.include_paths_by_priority =
             IF priority \in DOMAIN buckets
             THEN [buckets EXCEPT ![priority] = Append(@, path)]
             ELSE MapPut(buckets, priority, <<path>>)]

RECURSIVE AddIncludeDirectories(_, _, _)
AddIncludeDirectories(acc, owner, include_directories) ==
  IF include_directories = <<>> THEN acc
  ELSE AddIncludeDirectories(
         add_include_directory(acc, owner, Head(include_directories),
                               owner.include_priorty),
         owner, Tail(include_directories))

IsLibraryOrApplication(metadata) == metadata.type \in {"library", "application"}

\* PackageMetadata::IsLibrary
IsLibrary(metadata) == metadata.type = "library"

\* while (!dependencies_to_visit.empty()): the walk through the dependencies.
\* The consolidated fields of the root are written into the map as it goes.
RECURSIVE WalkDependencies(_, _, _, _)
WalkDependencies(store, configs, package_name, acc) ==
  IF acc.dependencies_to_visit = <<>>
  THEN [store |-> store, acc |-> acc, ok |-> TRUE]
  ELSE
    LET dependency == Head(acc.dependencies_to_visit)
        s1 == [store EXCEPT ![package_name].consolidated_dependencies =
                              Append(@, dependency)]
        s2 == GetUnconsolidatedMetadataForPackage(s1, configs, dependency)
    IN IF dependency \notin DOMAIN s2
       THEN [store |-> s2, acc |-> acc, ok |-> FALSE]
       ELSE IF ~IsLibrary(s2[dependency])
       THEN [store |-> s2, acc |-> acc, ok |-> FALSE]
       ELSE
         LET child_metadata == s2[dependency]
             s3 == IF ~child_metadata.no_output_file
                      /\ s2[package_name].type = "application"
                   THEN [s2 EXCEPT ![package_name].consolidated_library_objects =
                                     Append(@, child_metadata.output_object)]
                   ELSE s2
             a1 == AddDefines(acc, child_metadata.public_defines)
             a2 == AddIncludeDirectories(
                     a1, child_metadata,
                     child_metadata.public_include_directories)
             s4 == [s3 EXCEPT ![package_name].metadata_timestamp =
                                Max(@, child_metadata.metadata_timestamp)]
             a3 == AddDependencies(a2, child_metadata.dependencies)
             a4 == [a3 EXCEPT !.dependencies_to_visit = Tail(@)]
         IN WalkDependencies(s4, configs, package_name, a4)

\* for (const auto& define : defines) if (undefines.find(define) == end) ...
SurvivingDefines(acc) ==
  SelectSeq(SetInOrder(acc.defines), LAMBDA define : define \notin acc.undefines)

RECURSIVE IncludesByDescendingPriority(_, _)
IncludesByDescendingPriority(buckets, priorities) ==
  IF priorities = {} THEN <<>>
  ELSE LET priority == CHOOSE x \in priorities : \A y \in priorities : x >= y
       IN buckets[priority]
            \o IncludesByDescendingPriority(buckets, priorities \ {priority})

\* Sort and consolidate the includes.
RECURSIVE IncludesByPriority(_, _)
IncludesByPriority(buckets, priorities) ==
  IF priorities = {} THEN <<>>
  ELSE LET priority == CHOOSE x \in priorities : \A y \in priorities : x <= y
       IN buckets[priority] \o IncludesByPriority(buckets, priorities \ {priority})

\* Returns the metadata map and whether consolidation was successful.
ConsolidateMetadataForPackage(store, configs, package_name) ==
  LET metadata == store[package_name]
      a0 == [encountered_dependencies |-> {package_name},
             dependencies_to_visit |-> <<>>,
             defines |-> {},
             undefines |-> {},
             include_paths_by_priority |-> EmptyMap]
      a1 == AddDependencies(a0, metadata.dependencies)
      a2 == AddDefines(AddDefines(a1, metadata.defines), metadata.public_defines)
      a3 == AddIncludeDirectories(
              AddIncludeDirectories(a2, metadata, metadata.include_directories),
              metadata, metadata.public_include_directories)
      walk == WalkDependencies(store, configs, package_name, a3)
  IN IF ~walk.ok THEN [store |-> walk.store, ok |-> FALSE]
     ELSE [store |->
             [walk.store EXCEPT
                ![package_name].consolidated_defines =
                   @ \o SurvivingDefines(walk.acc),
                ![package_name].has_consolidated_information = TRUE,
                ![package_name].consolidated_includes =
                   @ \o IncludesByPriority(
                          walk.acc.include_paths_by_priority,
                          DOMAIN walk.acc.include_paths_by_priority)],
           ok |-> TRUE]

\* Returns the metadata map and "metadata" or "nullptr".
GetMetadataForPackage(store, configs, package_name) ==
  LET s1 == GetUnconsolidatedMetadataForPackage(store, configs, package_name)
  IN IF package_name \notin DOMAIN s1
     THEN [store |-> s1, result |-> "nullptr"]
     ELSE IF ~s1[package_name].has_consolidated_information
     THEN LET c == ConsolidateMetadataForPackage(s1, configs, package_name)
          IN [store |-> c.store,
              result |-> IF c.ok THEN "metadata" ELSE "nullptr"]
     ELSE [store |-> s1, result |-> "metadata"]

\* The fields of a PackageMetadata that consolidation fills.
ConsolidatedFields(metadata) ==
  [consolidated_defines |-> metadata.consolidated_defines,
   consolidated_dependencies |-> metadata.consolidated_dependencies,
   consolidated_includes |-> metadata.consolidated_includes,
   consolidated_library_objects |-> metadata.consolidated_library_objects]

\* GetMetadataForPackage is called, by the planner or by another caller.
CallGetMetadataForPackage(package_name) ==
  /\ metadata_requests < MaxRequests
  /\ LET r == GetMetadataForPackage(metadata_by_package_name, package_configs,
                                    package_name)
     IN /\ metadata_by_package_name' = r.store
        /\ last_metadata' = <<package_name, r.result>>
        /\ first_consolidated' =
             IF package_name \in DOMAIN first_consolidated
                \/ package_name \notin DOMAIN r.store
             THEN first_consolidated
             ELSE MapPut(first_consolidated, package_name,
                         ConsolidatedFields(r.store[package_name]))
  /\ metadata_requests' = metadata_requests + 1
  /\ UNCHANGED package_configs
  /\ UNCHANGED otherThanCons

\* The configurations the consolidation machine starts from: an application R
\* and the packages P and Q it may depend on; Q names P as its dependency, so
\* that P and Q may depend on each other.  A declaration puts one define
\* into one of the define lists, in the order of the declarations.
DefineStrings == {<<"A">>, <<"-", "A">>, <<"B">>, <<"-">>}

DefineSlots == {<<"R", "defines">>, <<"R", "public_defines">>,
                <<"P", "defines">>, <<"P", "public_defines">>,
                <<"Q", "public_defines">>}

Declarations ==
  UNION {[1..k -> DefineSlots \X DefineStrings] : k \in 0..MaxDefines}

DefinesIn(declarations, slot) ==
  LET chosen == SelectSeq(declarations, LAMBDA d : d[1] = slot)
  IN [i \in 1..Len(chosen) |-> chosen[i][2]]

ConfigsFor(declarations, r_dependencies, p_dependencies, q_kind) ==
  LET R == [type |-> "application",
            dependencies |-> r_dependencies,
            defines |-> DefinesIn(declarations, <<"R", "defines">>),
            public_defines |-> DefinesIn(declarations, <<"R", "public_defines">>),
            include_directories |-> <<"source">>,
            public_include_directories |-> <<"include">>,
            existing_directories |-> {"source", "include"},
            include_priorty |-> kDefaultIncludePriority,
            no_output_file |-> FALSE,
            timestamp |-> 1]
      P == [type |-> "library",
            dependencies |-> p_dependencies,
            defines |-> DefinesIn(declarations, <<"P", "defines">>),
            public_defines |-> DefinesIn(declarations, <<"P", "public_defines">>),
            include_directories |-> <<"private">>,
            public_include_directories |-> <<"include", "gone">>,
            existing_directories |-> {"private", "include"},
            include_priorty |-> kDefaultIncludePriority,
            no_output_file |-> FALSE,
            timestamp |-> 2]
      Q == [type |-> IF q_kind = "application" THEN "application" ELSE "library",
            dependencies |-> <<"P">>,
            defines |-> <<>>,
            public_defines |-> DefinesIn(declarations, <<"Q", "public_defines">>),
            include_directories |-> <<>>,
            public_include_directories |-> <<"include">>,
            existing_directories |-> {"include"},
            include_priorty |-> kDefaultIncludePriority - 1,
            no_output_file |-> FALSE,
            timestamp |-> 3]
  IN IF q_kind = "missing"
     THEN ("R" :> R) @@ ("P" :> P)
     ELSE ("R" :> R) @@ ("P" :> P) @@ ("Q" :> Q)

IdleCons ==
  /\ package_configs = EmptyMap
  /\ metadata_by_package_name = EmptyMap
  /\ metadata_requests = 0
  /\ last_metadata = <<"none", "none">>
  /\ first_consolidated = EmptyMap

----------------------------------------------------------------------------
(* The build planner across invocations: build.cc, dependencies.cc,        *)
(* timestamps.cc, main.cc, for the application A that depends on the       *)
(* library L.  A file is a pair <<kind, name>>.  A package stands for its  *)
(* own package ID.  The dependency map of a process is loaded when the     *)
(* process starts; the code loads it at the first use, which no caller can *)
(* tell apart.                                                             *)

SourceFiles(package_name) ==
  IF package_name = "A" THEN <<<<"source", "a1">>, <<"source", "a2">>>>
  ELSE <<<<"source", "l1">>>>

\* auto object_file = destination_file + ".o"
ObjectFile(source_file) == <<"object", source_file[2]>>

ConfigFile(package_name) == <<"config", package_name>>

GlobalConfigFile == <<"config", "global">>

OutputObject(package_name) == <<"temp", package_name>>

Files ==
  UNION {Range(SourceFiles(p)) \cup {ObjectFile(f) : f \in Range(SourceFiles(p))}
           \cup {ConfigFile(p), OutputObject(p)} : p \in {"A", "L"}}
    \cup {GlobalConfigFile}

\* GetTimestampOfFile: the cached value if there is one, else the disk's.
GetTimestampOfFile(cache, file) ==
  IF file \in DOMAIN cache THEN cache[file] ELSE mtime[file]

DoesFileExist(cache, file) == GetTimestampOfFile(cache, file) # 0

SetTimestampOfFileToNothing(cache, file) == cache

\* SetTimestampOfFileToNow: the cache entry of the file becomes the clock's
\* value, whatever the disk holds.
SetTimestampOfFileToNow(cache, file) == MapPut(cache, file, now)

\* LoadGlobalConfigFile: global_config_file_timestamp
global_config_file_timestamp == GetTimestampOfFile(EmptyMap, GlobalConfigFile)

\* LoadConfigFileForPackage: the timestamp it hands back.  For a package
\* without a config file it returns before it assigns the timestamp, which
\* stays as std::make_unique<PackageMetadata>() value-initialized it.
LoadConfigFileForPackage(package_name) ==
  IF ~DoesFileExist(EmptyMap, ConfigFile(package_name)) THEN 0
  ELSE Max(global_config_file_timestamp,
           GetTimestampOfFile(EmptyMap, ConfigFile(package_name)))

\* global_config_file, which LoadConfigFileForPackage returns for a package
\* without a config file: the default config declares an application.
global_config_file ==
  [type |-> "application", dependencies |-> <<>>, public_defines |-> <<>>,
   public_include_directories |-> <<>>, no_output_file |-> FALSE]

\* The config LoadConfigFileForPackage returns for the package.
LoadedConfig(package_name) ==
  IF DoesFileExist(EmptyMap, ConfigFile(package_name))
  THEN package_configs[package_name]
  ELSE global_config_file

\* What the config files of A and L may declare: A is an application that
\* depends on L, and in some universes also on M, which no directory holds;
\* L is a library, or in some universes an application.
\* L declares a public define and a public include directory, and in some
\* universes no_output_file.
BuildScenarios ==
  {("A" :> [type |-> "application", dependencies |-> a_dependencies,
            public_defines |-> <<>>, public_include_directories |-> <<>>,
            no_output_file |-> FALSE])
     @@ ("L" :> [type |-> l_type, dependencies |-> <<>>,
                 public_defines |-> << <<"B">> >>,
                 public_include_directories |-> <<"include">>,
                 no_output_file |-> l_no_output_file]) :
       a_dependencies \in {<<"L">>, <<"L", "M">>},
       l_type \in {"library", "application"},
       l_no_output_file \in BOOLEAN}

\* What the config files of A and L hold, as ParseConfigIntoMetadata reads them.
BuildConfigs ==
  [package_name \in DOMAIN package_configs |->
     [type |-> LoadedConfig(package_name).type,
      dependencies |-> LoadedConfig(package_name).dependencies,
      defines |-> <<>>,
      public_defines |-> LoadedConfig(package_name).public_defines,
      include_directories |-> <<>>,
      public_include_directories |->
        LoadedConfig(package_name).public_include_directories,
      existing_directories |->
        Range(LoadedConfig(package_name).public_include_directories),
      include_priorty |-> kDefaultIncludePriority,
      no_output_file |-> LoadedConfig(package_name).no_output_file,
      timestamp |-> LoadConfigFileForPackage(package_name)]]

\* GetDependenciesForPackage, in a process that has changed nothing yet: what
\* MaybeLoadDependenciesForPackage reads from the dependencies file.
GetDependenciesForPackage(package_id) == dependencies_file[package_id]

AreAnyCachedFilesNewerThanFile(dependencies_per_file, cache, threshold_timestamp, file) ==
  LET timestamp_of_destination == GetTimestampOfFile(cache, file)
  IN IF timestamp_of_destination = 0
        \/ threshold_timestamp > timestamp_of_destination
     THEN TRUE
     ELSE IF file \notin DOMAIN dependencies_per_file THEN TRUE
     ELSE \E cached \in DOMAIN cache :
            cache[cached] = 0 \/ cache[cached] > timestamp_of_destination

AreDependenciesNewerOrNoneThanFile(dependencies_per_file, cache, threshold_timestamp, file) ==
  LET timestamp_of_destination == GetTimestampOfFile(cache, file)
  IN IF timestamp_of_destination = 0
        \/ threshold_timestamp > timestamp_of_destination
     THEN TRUE
     ELSE IF file \notin DOMAIN dependencies_per_file THEN TRUE
     ELSE IF dependencies_per_file[file] = <<>> THEN TRUE
     ELSE \E i \in 1..Len(dependencies_per_file[file]) :
            LET timestamp_of_dependency ==
                  GetTimestampOfFile(cache, dependencies_per_file[file][i])
            IN timestamp_of_dependency = 0
                 \/ timestamp_of_dependency > timestamp_of_destination

\* dependencies_per_file is GetDependenciesForPackage(package_id).
AreDependenciesNewerThanFile(dependencies_per_file, cache, threshold_timestamp, file) ==
  LET timestamp_of_destination == GetTimestampOfFile(cache, file)
  IN IF timestamp_of_destination = 0
        \/ threshold_timestamp > timestamp_of_destination
     THEN TRUE
     ELSE IF file \notin DOMAIN dependencies_per_file THEN TRUE
     ELSE \E i \in 1..Len(dependencies_per_file[file]) :
            LET timestamp_of_dependency ==
                  GetTimestampOfFile(cache, dependencies_per_file[file][i])
            IN timestamp_of_dependency = 0
                 \/ timestamp_of_dependency > timestamp_of_destination

\* SetDependenciesOfFile: the map and the invalidated packages afterwards.
SetDependenciesOfFile(deps, invalidated, package_id, file, dependencies) ==
  IF file \in DOMAIN deps[package_id]
     /\ deps[package_id][file] = dependencies
  THEN [deps |-> deps, invalidated |-> invalidated]
  ELSE [deps |-> [deps EXCEPT ![package_id] = MapPut(@, file, dependencies)],
        invalidated |-> invalidated \cup {package_id}]

\* QueueCommand, on the queue the planner is filling.
QueueCommandInto(queue, stage_i, command) ==
  IF stage_i \in DOMAIN queue
  THEN [queue EXCEPT ![stage_i] = Append(@, command)]
  ELSE MapPut(queue, stage_i, <<command>>)

GetLinkerStage(metadata) ==
  IF metadata.type = "application" THEN StageLinkApplication
  ELSE StageLinkLibrary

NoFileName == <<"none", "none">>

CompileCommand(package_id, source_file) ==
  [command |-> "compile", package_id |-> package_id,
   source_file |-> source_file, destination_file |-> ObjectFile(source_file),
   object_files_to_link |-> <<>>]

\* ParseConfigIntoMetadata reads source_directories only for a package that
\* has an output file.
SourceFilesOf(metadata) ==
  IF metadata.no_output_file THEN <<>> ELSE SourceFiles(metadata.package_path)

\* object_files_to_link: the object of every source file, then the library
\* objects of the dependencies.
ObjectFilesToLink(metadata) ==
  [i \in 1..Len(SourceFilesOf(metadata)) |-> ObjectFile(SourceFilesOf(metadata)[i])]
    \o metadata.consolidated_library_objects

\* object_files_to_link is what ${in} of the linker command stands for.
LinkCommand(package_id, object_files_to_link) ==
  [command |-> "link", package_id |-> package_id,
   source_file |-> NoFileName, destination_file |-> OutputObject(package_id),
   object_files_to_link |-> object_files_to_link]

\* BuildPackage: the body of the ForEachSourceFile loop for one source file.
CompileSourceFile(st, metadata, source_file) ==
  IF ~AreDependenciesNewerThanFile(
        GetDependenciesForPackage(metadata.package_path), st.cache,
        metadata.metadata_timestamp, ObjectFile(source_file))
  THEN st
  ELSE [st EXCEPT
          !.queue = QueueCommandInto(
                      @, StageCompile,
                      CompileCommand(metadata.package_path, source_file)),
          !.has_something_been_built = TRUE]

RECURSIVE ForEachSourceFile(_, _, _)
ForEachSourceFile(st, metadata, source_files) ==
  IF source_files = <<>> THEN st
  ELSE With(CompileSourceFile(st, metadata, Head(source_files)),
            LAMBDA compiled :
              ForEachSourceFile(compiled, metadata, Tail(source_files)))

\* BuildPackage: whether a library object makes the package link again.
LibraryObjectIsNewer(cache, metadata, library_object, object_file_timestamp) ==
  LET library_timestamp == GetTimestampOfFile(cache, library_object)
  IN library_timestamp = 0
       \/ library_timestamp > metadata.metadata_timestamp
       \/ library_timestamp > object_file_timestamp

\* BuildPackage, inside if (!metadata->no_output_file): the compile commands
\* and the link command of the package.  The output files build.cc writes for
\* a library are the one output_object of package_metadata.h.
BuildOutputFile(st, metadata) ==
  With(ForEachSourceFile([st EXCEPT !.has_something_been_built = FALSE],
                         metadata, SourceFilesOf(metadata)),
       LAMBDA st1 :
  LET up_to_date == DoesFileExist(st1.cache, metadata.output_object)
                      /\ ~st1.has_something_been_built
      object_file_timestamp ==
        IF up_to_date THEN GetTimestampOfFile(st1.cache, metadata.output_object)
        ELSE 0
      has_something_been_built ==
        \/ ~up_to_date
        \/ \E i \in 1..Len(metadata.consolidated_library_objects) :
             LibraryObjectIsNewer(st1.cache, metadata,
                                  metadata.consolidated_library_objects[i],
                                  object_file_timestamp)
  IN IF ~has_something_been_built THEN st1
     ELSE [st1 EXCEPT
             !.cache = SetTimestampOfFileToNow(@, metadata.output_object),
             !.queue = QueueCommandInto(
                         @, GetLinkerStage(metadata),
                         LinkCommand(metadata.package_path,
                                     ObjectFilesToLink(metadata))),
             !.has_something_been_built = TRUE])

BuildThisPackageWithNoOutputFile(st, metadata) == BuildOutputFile(st, metadata)

\* BuildPackage, after the dependencies of an application are built.
BuildThisPackage(st, metadata) ==
  IF metadata.no_output_file THEN st ELSE BuildOutputFile(st, metadata)

RECURSIVE BuildPackage(_, _)
RECURSIVE BuildEachPackage(_, _)

\* for (dependency : consolidated_dependencies) if (!BuildPackage) return false
BuildEachPackage(st, package_names) ==
  IF package_names = <<>> \/ ~st.ok THEN st
  ELSE With(BuildPackage(st, Head(package_names)),
            LAMBDA built : BuildEachPackage(built, Tail(package_names)))

\* st.ok is what BuildPackage returns.
BuildPackage(st, package_name) ==
  IF package_name \in st.packages THEN st
  ELSE
    With(GetMetadataForPackage(st.store, BuildConfigs, package_name),
         LAMBDA got :
    LET st1 == [st EXCEPT !.packages = @ \cup {package_name},
                          !.store = got.store]
    IN IF got.result = "nullptr" THEN [st1 EXCEPT !.ok = FALSE]
       ELSE
         LET metadata == got.store[package_name]
         IN With(IF metadata.type = "application"
                 THEN BuildEachPackage(st1, metadata.consolidated_dependencies)
                 ELSE st1,
                 LAMBDA st2 :
                   IF ~st2.ok THEN st2 ELSE BuildThisPackage(st2, metadata)))

\* The packages named on the command line (ForEachInputPackage).
InputPackages == <<"A">>

\* BuildPackages: successful &= BuildPackage(name), for each input package.
RECURSIVE BuildInputPackages(_, _)
BuildInputPackages(st, package_names) ==
  IF package_names = <<>> THEN st
  ELSE With(BuildPackage([st EXCEPT !.ok = TRUE], Head(package_names)),
            LAMBDA built :
              BuildInputPackages([built EXCEPT !.ok = st.ok /\ built.ok],
                                 Tail(package_names)))

\* A process starts, plans the build (HandleInvocation: BuildPackages) and is
\* about to call RunQueuedCommands.
BuildPackages(v) ==
  /\ b_pc = "off"
  /\ b_pc' = "planned"
  /\ b_verbose' = v
  /\ \E st \in {BuildInputPackages(
                    [packages |-> {}, store |-> EmptyMap, queue |-> EmptyMap,
                     cache |-> EmptyMap, has_something_been_built |-> FALSE,
                     ok |-> TRUE],
                    InputPackages)} :
        /\ planned_commands' = st.queue
        /\ timestamps_by_filename' = st.cache
        /\ build_ok' = st.ok
        /\ metadata_by_package_name' = st.store
  /\ dependencies_per_file_per_package' = dependencies_file
  /\ packages_with_invalidated_dependencies' = {}
  /\ b_stage' = 0
  /\ any_failure' = FALSE
  /\ UNCHANGED <<now, mtime, dependencies_file, clean, touched>>
  /\ UNCHANGED <<idVars, queueVars, parseVars, staleVars, pkgVars, assetVars,
                 laterVars, package_configs,
                 metadata_requests, last_metadata, first_consolidated>>

\* The stages RunQueuedCommands has still to execute.
RemainingStages == {s \in DOMAIN planned_commands : s >= b_stage}

\* The worker's SetDependenciesOfFile for each command that exited zero; the
\* commands hold no ${deps file}, so a command's dependencies are its source.
RECURSIVE RecordDependencies(_, _, _)
RecordDependencies(acc, commands, exited_zero) ==
  IF commands = <<>> THEN acc
  ELSE LET command == Head(commands)
           rest == RecordDependencies(acc, Tail(commands),
                                      {i - 1 : i \in exited_zero \ {1}})
       IN IF 1 \in exited_zero
          THEN SetDependenciesOfFile(rest.deps, rest.invalidated,
                                     command.package_id,
                                     command.destination_file,
                                     <<command.source_file>>)
          ELSE rest

\* RunQueuedCommands executes its next stage: every command of the stage runs
\* and writes its destination file if it exits zero.  A stage that ran in the
\* worker pool (not verbose) fails if a command failed, and records the
\* dependencies of the Compile commands that exited zero.
ExecuteBuildStage ==
  /\ b_pc \in {"planned", "executing"}
  /\ build_ok
  /\ RemainingStages # {}
  /\ now < MaxTime
  /\ LET s == CHOOSE x \in RemainingStages : \A y \in RemainingStages : x <= y
         commands == planned_commands[s]
     IN \E failing \in SUBSET (1..Len(commands)) :
          LET exited_zero == (1..Len(commands)) \ failing
              recorded ==
                IF IsSequential(s, b_verbose) \/ s # StageCompile
                THEN [deps |-> dependencies_per_file_per_package,
                      invalidated |-> packages_with_invalidated_dependencies]
                ELSE RecordDependencies(
                       [deps |-> dependencies_per_file_per_package,
                        invalidated |-> packages_with_invalidated_dependencies],
                       commands, exited_zero)
          IN /\ mtime' = [f \in Files |->
                            IF \E i \in exited_zero :
                                 commands[i].destination_file = f
                            THEN now ELSE mtime[f]]
             /\ dependencies_per_file_per_package' = recorded.deps
             /\ packages_with_invalidated_dependencies' = recorded.invalidated
             /\ build_ok' = (IsSequential(s, b_verbose) \/ failing = {})
             /\ any_failure' = (any_failure \/ failing # {})
             /\ b_stage' = s + 1
  /\ b_pc' = "executing"
  /\ now' = now + 1
  /\ UNCHANGED <<dependencies_file, timestamps_by_filename, planned_commands,
                 b_verbose, clean, touched>>
  /\ UNCHANGED otherThanBuild

\* main after WrappedMain: FlushDependencies, and the process ends.
FlushDependencies ==
  /\ b_pc \in {"planned", "executing"}
  /\ ~build_ok \/ RemainingStages = {}
  /\ dependencies_file' =
       [p \in DOMAIN dependencies_file |->
          IF p \in packages_with_invalidated_dependencies
          THEN dependencies_per_file_per_package[p]
          ELSE dependencies_file[p]]
  /\ b_pc' = "off"
  /\ clean' = (build_ok /\ ~any_failure)
  /\ touched' = {}
  /\ timestamps_by_filename' = EmptyMap
  /\ dependencies_per_file_per_package' = EmptyMap
  /\ packages_with_invalidated_dependencies' = {}
  /\ planned_commands' = EmptyMap
  /\ b_stage' = 0
  /\ build_ok' = TRUE
  /\ any_failure' = FALSE
  /\ b_verbose' = FALSE
  /\ metadata_by_package_name' = EmptyMap
  /\ UNCHANGED <<now, mtime>>
  /\ UNCHANGED <<idVars, queueVars, parseVars, staleVars, pkgVars, assetVars,
                 laterVars, package_configs,
                 metadata_requests, last_metadata, first_consolidated>>

\* The files the user edits between invocations.
Touchable ==
  UNION {Range(SourceFiles(p)) \cup {ConfigFile(p)} : p \in {"A", "L"}}

\* The environment: a file is written while no build is running.
Touch(file) ==
  /\ b_pc = "off"
  /\ now < MaxTime
  /\ mtime' = [mtime EXCEPT ![file] = now]
  /\ now' = now + 1
  /\ touched' = touched \cup {file}
  /\ UNCHANGED <<dependencies_file, b_pc, timestamps_by_filename,
                 dependencies_per_file_per_package,
                 packages_with_invalidated_dependencies, planned_commands,
                 b_stage, build_ok, b_verbose, any_failure, clean>>
  /\ UNCHANGED otherThanBuild

IdleBuild ==
  /\ now = 2
  /\ mtime = [f \in Files |-> IF f[1] \in {"source", "config"} THEN 1 ELSE 0]
  /\ dependencies_file = [p \in {"A", "L"} |-> EmptyMap]
  /\ b_pc = "off"
  /\ timestamps_by_filename = EmptyMap
  /\ dependencies_per_file_per_package = EmptyMap
  /\ packages_with_invalidated_dependencies = {}
  /\ planned_commands = EmptyMap
  /\ b_stage = 0
  /\ build_ok = TRUE
  /\ b_verbose = FALSE
  /\ any_failure = FALSE
  /\ clean = FALSE
  /\ touched = {}


----------------------------------------------------------------------------
(* dependencies.cc, ReadDependenciesFromFile: the parser of the dependency *)
(* file a compiler writes.  A text is a sequence of one-character strings, *)
(* indexed from 1 where the code indexes from 0.                           *)

\* The characters a dependency file of the model is made of.
DependencyFileChars == {"a", ":", " ", "\\", "\n", "\r"}

never_escaped_space(input_contents, index) == FALSE

\* auto is_escaped_space = [&input_contents](int index) -> bool
is_escaped_space(input_contents, index) ==
  /\ input_contents[index] = "\\"
  /\ index + 1 <= Len(input_contents)
  /\ input_contents[index + 1] = " "

\* The for loop of maybe_add_path: path_str and encountered_non_space.
RECURSIVE BuildPathStr(_, _, _)
BuildPathStr(input_contents, index, remaining) ==
  IF remaining = 0
  THEN [path_str |-> <<>>, encountered_non_space |-> FALSE]
  ELSE IF is_escaped_space(input_contents, index)
  THEN With(BuildPathStr(input_contents, index + 2, remaining - 1),
            LAMBDA rest :
              [path_str |-> <<" ">> \o rest.path_str,
               encountered_non_space |-> rest.encountered_non_space])
  ELSE With(BuildPathStr(input_contents, index + 1, remaining - 1),
            LAMBDA rest :
              [path_str |-> <<input_contents[index]>> \o rest.path_str,
               encountered_non_space |-> TRUE])

\* auto maybe_add_path = [...]()
maybe_add_path(input_contents, start_index, path_length, dependencies) ==
  IF path_length <= 0 THEN dependencies
  ELSE With(BuildPathStr(input_contents, start_index, path_length),
            LAMBDA built :
              IF built.encountered_non_space
              THEN Append(dependencies, built.path_str)
              ELSE dependencies)

\* for (int i = 0; i < input_contents.size(); i++), then the last
\* maybe_add_path.
RECURSIVE ScanDependencies(_, _, _)
ScanDependencies(input_contents, i, st) ==
  IF i > Len(input_contents)
  THEN maybe_add_path(input_contents, st.start_index, st.path_length,
                      st.dependencies)
  ELSE IF ~st.encountered_first_colon
  THEN IF input_contents[i] = ":"
       THEN ScanDependencies(input_contents, i + 1,
                             [st EXCEPT !.encountered_first_colon = TRUE,
                                        !.start_index = i + 1])
       ELSE ScanDependencies(input_contents, i + 1, st)
  ELSE IF is_escaped_space(input_contents, i)
  THEN ScanDependencies(input_contents, i + 2,
                        [st EXCEPT !.path_length = @ + 1])
  ELSE IF input_contents[i] \in {" ", "\n", "\r", "\\"}
  THEN With(maybe_add_path(input_contents, st.start_index, st.path_length,
                           st.dependencies),
            LAMBDA added :
              ScanDependencies(input_contents, i + 1,
                               [st EXCEPT !.dependencies = added,
                                          !.start_index = i + 1,
                                          !.path_length = 0]))
  ELSE ScanDependencies(input_contents, i + 1,
                        [st EXCEPT !.path_length = @ + 1])

\* A file is [is_open, contents]: whether the ifstream opens, and the text.
ReadDependenciesFromFile(file) ==
  IF ~file.is_open THEN <<>>
  ELSE ScanDependencies(file.contents, 1,
                        [encountered_first_colon |-> FALSE,
                         start_index |-> 1,
                         path_length |-> 0,
                         dependencies |-> <<>>])

\* The worker reads the dependency file its command wrote.
CallReadDependenciesFromFile ==
  /\ rd_pc = "written"
  /\ rd_pc' = "read"
  /\ dependencies_read' = ReadDependenciesFromFile(dependency_file)
  /\ UNCHANGED dependency_file
  /\ UNCHANGED otherThanParse

IdleParse ==
  /\ dependency_file = [is_open |-> FALSE, contents |-> <<>>]
  /\ rd_pc = "off"
  /\ dependencies_read = <<>>

----------------------------------------------------------------------------
(* dependencies.cc and timestamps.cc as the planner calls them within one  *)
(* invocation: the staleness test of one object file of A with a given     *)
(* threshold, timestamp reads, set-to-now on output files, and loads of    *)
(* the dependency maps.  Nothing is written to disk.                       *)

\* The object file the staleness test is about.
StaleObject == ObjectFile(<<"source", "a1">>)

\* The files whose timestamps the planner reads.
StaleFiles ==
  {StaleObject, <<"source", "a1">>, OutputObject("L"), OutputObject("A")}

\* The files the planner sets to now: the outputs of the link commands.
OutputFiles == {OutputObject("A"), OutputObject("L")}

\* GetTimestampOfFile memoizes what it read from disk.
MemoizeTimestamp(cache, file) ==
  IF file \in DOMAIN cache THEN cache ELSE MapPut(cache, file, mtime[file])

\* The cache after AreDependenciesNewerThanFile: the destination is read, and
\* the dependencies up to the first one that makes the test return.
RECURSIVE MemoizeDependencies(_, _, _)
MemoizeDependencies(cache, dependencies, timestamp_of_destination) ==
  IF dependencies = <<>> THEN cache
  ELSE With(MemoizeTimestamp(cache, Head(dependencies)),
            LAMBDA read :
              IF read[Head(dependencies)] = 0
                 \/ read[Head(dependencies)] > timestamp_of_destination
              THEN read
              ELSE MemoizeDependencies(read, Tail(dependencies),
                                       timestamp_of_destination))

\* GetDependenciesForPackage: the map of a package, loaded from its file the
\* first time it is asked for.
LoadedDependencies(loaded, package_id) ==
  IF package_id \in DOMAIN loaded THEN loaded
  ELSE MapPut(loaded, package_id, dependencies_file[package_id])

\* The planner asks whether StaleObject of package A is stale.
CallAreDependenciesNewerThanFile(threshold_timestamp) ==
  /\ st_pc = "planning"
  /\ \E loaded \in {LoadedDependencies(dependencies_per_file_per_package, "A")} :
       /\ dependencies_per_file_per_package' = loaded
       /\ LET answer == AreDependenciesNewerThanFile(
                          loaded["A"], timestamps_by_filename,
                          threshold_timestamp, StaleObject)
              read == MemoizeTimestamp(timestamps_by_filename, StaleObject)
          IN /\ timestamps_by_filename' =
                  IF read[StaleObject] = 0
                     \/ threshold_timestamp > read[StaleObject]
                     \/ StaleObject \notin DOMAIN loaded["A"]
                  THEN read
                  ELSE MemoizeDependencies(read, loaded["A"][StaleObject],
                                           read[StaleObject])
             /\ set_to_now_after' =
                  IF answer \/ threshold_timestamp \in DOMAIN set_to_now_after
                  THEN set_to_now_after
                  ELSE MapPut(set_to_now_after, threshold_timestamp, {})
  /\ UNCHANGED <<now, mtime, dependencies_file, b_pc,
                 packages_with_invalidated_dependencies, planned_commands,
                 b_stage, b_verbose, any_failure, build_ok, clean, touched,
                 st_pc>>
  /\ UNCHANGED otherThanStale

\* The planner reads the timestamp of a file.
CallGetTimestampOfFile(file) ==
  /\ st_pc = "planning"
  /\ file \notin DOMAIN timestamps_by_filename
  /\ timestamps_by_filename' = MemoizeTimestamp(timestamps_by_filename, file)
  /\ UNCHANGED <<now, mtime, dependencies_file,
                 dependencies_per_file_per_package, b_pc,
                 packages_with_invalidated_dependencies, planned_commands,
                 b_stage, b_verbose, any_failure, build_ok, clean, touched,
                 st_pc, set_to_now_after>>
  /\ UNCHANGED otherThanStale

\* The planner has queued the command that writes an output file.
CallSetTimestampOfFileToNow(file) ==
  /\ st_pc = "planning"
  /\ IF file \in DOMAIN timestamps_by_filename
     THEN timestamps_by_filename[file] # now ELSE TRUE
  /\ timestamps_by_filename' = SetTimestampOfFileToNow(timestamps_by_filename, file)
  /\ set_to_now_after' =
       [threshold \in DOMAIN set_to_now_after |->
          set_to_now_after[threshold] \cup {file}]
  /\ UNCHANGED <<now, mtime, dependencies_file,
                 dependencies_per_file_per_package, b_pc,
                 packages_with_invalidated_dependencies, planned_commands,
                 b_stage, b_verbose, any_failure, build_ok, clean, touched,
                 st_pc>>
  /\ UNCHANGED otherThanStale

\* The planner asks for the dependency map of a package.
CallGetDependenciesForPackage(package_id) ==
  /\ st_pc = "planning"
  /\ package_id \notin DOMAIN dependencies_per_file_per_package
  /\ dependencies_per_file_per_package' =
       LoadedDependencies(dependencies_per_file_per_package, package_id)
  /\ UNCHANGED <<now, mtime, dependencies_file, timestamps_by_filename, b_pc,
                 packages_with_invalidated_dependencies, planned_commands,
                 b_stage, b_verbose, any_failure, build_ok, clean, touched,
                 st_pc, set_to_now_after>>
  /\ UNCHANGED otherThanStale

IdleStale ==
  /\ st_pc = "off"
  /\ set_to_now_after = EmptyMap

----------------------------------------------------------------------------
(* packages.cc, invocation.cc and main.cc: the registry of package names   *)
(* and the packages an invocation is about.  A path or a command-line      *)
(* argument is the sequence of its components; <<>> is the empty string.   *)

\* std::filesystem::current_path()
CurrentPath == <<"/", "work", "bar">>

\* What the user may type as a package: two short names, of which the second
\* names no package, and four paths, of which two end in the same name and
\* the last never exists.
InputArguments ==
  {<<"foo">>, <<"nosuch">>, <<".", "x", "foo">>, <<".", "y", "foo">>,
   <<"c:", "bar">>, <<".", "gone", "bar">>}

\* The paths among the arguments that may exist on disk.
ExplicitPaths == {<<".", "x", "foo">>, <<".", "y", "foo">>, <<"c:", "bar">>}

\* ForEachPackageDirectory: package_directories of the global config.
PackageDirectories == << <<"/", "d0">>, <<"/", "d1">>, <<"/", "d2">> >>

\* std::filesystem::directory_iterator{package_directory}: /d0 does not
\* exist, /d1 holds the directories foo and .git and the file bar, /d2 holds
\* the directories foo and bar.
DirectoryEntries(package_directory) ==
  IF package_directory = <<"/", "d1">>
  THEN {[name |-> "foo", is_directory |-> TRUE],
        [name |-> ".git", is_directory |-> TRUE],
        [name |-> "bar", is_directory |-> FALSE]}
  ELSE IF package_directory = <<"/", "d2">>
  THEN {[name |-> "foo", is_directory |-> TRUE],
        [name |-> "bar", is_directory |-> TRUE]}
  ELSE {}

\* std::filesystem::exists
PathExists(path) ==
  \/ path \in disk_paths
  \/ path = CurrentPath
  \/ path \in {<<"/", "d1">>, <<"/", "d2">>}
  \/ /\ Len(path) = 3
     /\ \E entry \in DirectoryEntries(SubSeq(path, 1, 2)) : entry.name = path[3]

\* filename[0] == '.', for the names of the model.
StartsWithDot(name) == name \in {".", ".git"}

\* name_or_path.find(':') != npos, for the components of the model.
HasColon(component) == component \in {"c:"}

IsPackageAPath(name_or_path) ==
  /\ Len(name_or_path) > 0
  /\ \/ StartsWithDot(name_or_path[1])
     \/ name_or_path[1] = "/"
     \/ \E i \in 1..Len(name_or_path) : HasColon(name_or_path[i])

\* path.filename()
GetPackageNameFromPath(path) == path[Len(path)]

RegisterPackagePathOverwriting(registry, package_path) ==
  MapPut(registry, GetPackageNameFromPath(package_path), package_path)

\* RegisterPackagePath: packages_to_paths afterwards.
RegisterPackagePath(registry, package_path) ==
  IF GetPackageNameFromPath(package_path) \in DOMAIN registry THEN registry
  ELSE MapPut(registry, GetPackageNameFromPath(package_path), package_path)

RECURSIVE RegisterEach(_, _)
RegisterEach(registry, package_paths) ==
  IF package_paths = <<>> THEN registry
  ELSE With(RegisterPackagePath(registry, Head(package_paths)),
            LAMBDA registered : RegisterEach(registered, Tail(package_paths)))

\* ForEachRawInputPackage: the arguments, or "" for the working directory if
\* there are none and the working directory holds no local config.
RawInputPackages ==
  IF input_packages = <<>>
  THEN IF ~local_config THEN << <<>> >> ELSE <<>>
  ELSE input_packages

\* InitializePackages, first loop: the paths it hands to RegisterPackagePath.
RECURSIVE PathsOfInputs(_)
PathsOfInputs(raw_inputs) ==
  IF raw_inputs = <<>> THEN <<>>
  ELSE LET name_or_path == Head(raw_inputs)
       IN (IF Len(name_or_path) = 0 THEN <<CurrentPath>>
           ELSE IF IsPackageAPath(name_or_path) /\ PathExists(name_or_path)
           THEN <<name_or_path>>
           ELSE <<>>)
            \o PathsOfInputs(Tail(raw_inputs))

\* The orders in which a directory_iterator may give the entries of a directory.
Orders(S) ==
  {order \in [1..Cardinality(S) -> S] :
     \A i, j \in 1..Cardinality(S) : i # j => order[i] # order[j]}

\* InitializePackages, second loop, for one package directory: the paths it
\* hands to RegisterPackagePath when the iterator gives the entries in `order`.
PathsOfEntries(package_directory, order) ==
  LET kept == SelectSeq(order, LAMBDA entry :
                          entry.is_directory /\ ~StartsWithDot(entry.name))
  IN [i \in 1..Len(kept) |-> Append(package_directory, kept[i].name)]

\* InitializePackages
InitializePackages ==
  /\ pk_pc = "main"
  /\ pk_pc' = "initialized"
  /\ \E o1 \in Orders(DirectoryEntries(PackageDirectories[1])),
        o2 \in Orders(DirectoryEntries(PackageDirectories[2])),
        o3 \in Orders(DirectoryEntries(PackageDirectories[3])) :
       \E registered \in
            {(IF ~all_known_packages THEN PathsOfInputs(RawInputPackages)
              ELSE <<>>)
               \o PathsOfEntries(PackageDirectories[1], o1)
               \o PathsOfEntries(PackageDirectories[2], o2)
               \o PathsOfEntries(PackageDirectories[3], o3)} :
         /\ registration_log' = registered
         /\ packages_to_paths' = RegisterEach(packages_to_paths, registered)
         /\ registered_at_init' = RegisterEach(packages_to_paths, registered)
  /\ UNCHANGED <<input_packages, all_known_packages, local_config, disk_paths,
                 invocation_action, unresolved_inputs, build_returned,
                 exit_code, package_kinds, global_run_command, run_queue,
                 run_returned, main_calls>>
  /\ UNCHANGED otherThanPackages

\* GetPackagePath: the path of an argument, <<>> if it does not resolve.
GetPackagePath(name_or_path) ==
  IF Len(name_or_path) = 0 THEN CurrentPath
  ELSE IF IsPackageAPath(name_or_path)
  THEN IF ~PathExists(name_or_path) THEN <<>> ELSE name_or_path
  ELSE IF name_or_path[1] \notin DOMAIN packages_to_paths THEN <<>>
  ELSE packages_to_paths[name_or_path[1]]

\* GetPackagePathFromName: the registered path, <<>> for kEmptyPath.
GetPackagePathFromName(name) ==
  IF name \notin DOMAIN packages_to_paths THEN <<>> ELSE packages_to_paths[name]

\* ForEachInputPackage: the paths on_each_package is called with.
ForEachInputPackage ==
  IF all_known_packages
  THEN LET names == CHOOSE order \in Orders(DOMAIN packages_to_paths) : TRUE
       IN [i \in 1..Len(names) |-> packages_to_paths[names[i]]]
  ELSE SelectSeq([i \in 1..Len(RawInputPackages) |->
                    GetPackagePath(RawInputPackages[i])],
                 LAMBDA package_path : Len(package_path) # 0)

\* The names of the packages of the model.
PackageNames == {"foo", "bar"}

\* What GetMetadataForPackage may give for a name.
PackageKinds == {"application", "library", "nullptr"}

RunCommand(package_name) == [command |-> "run", package_name |-> package_name]

GlobalRunCommand == [command |-> "global_run_command", package_name |-> ""]

AddPackageToRunAgain(run, package_to_build) ==
  IF package_kinds[package_to_build] # "application"
  THEN [run EXCEPT !.packages = @ \cup {package_to_build}]
  ELSE [run EXCEPT !.packages = @ \cup {package_to_build},
                   !.queue = Append(@, RunCommand(package_to_build)),
                   !.packages_to_run = @ + 1]

\* AddPackageToRun; packages_to_run counts the calls that return true.
AddPackageToRun(run, package_to_build) ==
  IF package_to_build \in run.packages THEN run
  ELSE IF package_kinds[package_to_build] # "application"
  THEN [run EXCEPT !.packages = @ \cup {package_to_build}]
  ELSE [run EXCEPT !.packages = @ \cup {package_to_build},
                   !.queue = Append(@, RunCommand(package_to_build)),
                   !.packages_to_run = @ + 1]

RECURSIVE AddPackagesToRun(_, _)
AddPackagesToRun(run, package_paths) ==
  IF package_paths = <<>> THEN run
  ELSE With(AddPackageToRun(run, GetPackageNameFromPath(Head(package_paths))),
            LAMBDA added : AddPackagesToRun(added, Tail(package_paths)))

\* RunEachPackageIndividually: the Run queue and what it returns.
RunEachPackageIndividually ==
  With(AddPackagesToRun([packages |-> {}, queue |-> <<>>, packages_to_run |-> 0],
                        ForEachInputPackage),
       LAMBDA run : [queue |-> run.queue, result |-> run.packages_to_run # 0])

\* RunPackages: the Run queue and what it returns.
RunPackages ==
  IF ~global_run_command THEN RunEachPackageIndividually
  ELSE [queue |-> <<GlobalRunCommand>>, result |-> TRUE]

\* HandleInvocation for Build and Run: what it calls.
HandleInvocationCalls(action, built) ==
  IF action = "Run" /\ built THEN <<"BuildPackages", "RunPackages">>
  ELSE <<"BuildPackages">>

\* WrappedMain calling RunQueuedCommands whatever HandleInvocation returned.
WrappedMainCallsRunningAnyway(handle_invocation_calls, handled) ==
  handle_invocation_calls \o <<"RunQueuedCommands">>

\* WrappedMain: what it calls; handled is what HandleInvocation returned.
WrappedMainCalls(handle_invocation_calls, handled) ==
  handle_invocation_calls
    \o (IF handled THEN <<"RunQueuedCommands">> ELSE <<>>)

\* main after InitializePackages: WrappedMain runs HandleInvocation, that is
\* BuildPackages and, for Run, RunPackages, then RunQueuedCommands; main then
\* calls FlushDependencies and FlushPackageIDs and returns 0 or -1.
\* `failing` are the packages whose BuildPackage returns false, among them
\* those without metadata, and run_queued_commands is what RunQueuedCommands
\* returns when it is called.
WrappedMain(failing, run_queued_commands) ==
  /\ pk_pc = "initialized"
  /\ pk_pc' = "exited"
  /\ \A name \in PackageNames : package_kinds[name] = "nullptr" => name \in failing
  /\ \E built \in {{GetPackageNameFromPath(ForEachInputPackage[i]) :
                       i \in 1..Len(ForEachInputPackage)} \cap failing = {}} :
       \E ran \in {IF invocation_action = "Run" /\ built THEN RunPackages
                   ELSE [queue |-> run_queue, result |-> TRUE]} :
         \E calls \in {WrappedMainCalls(
                         HandleInvocationCalls(invocation_action, built),
                         built /\ ran.result)} :
           /\ build_returned' = built
           /\ run_queue' = ran.queue
           /\ run_returned' =
                IF invocation_action = "Run" /\ built
                THEN IF ran.result THEN "true" ELSE "false"
                ELSE run_returned
           /\ main_calls' = calls \o <<"FlushDependencies", "FlushPackageIDs">>
           /\ exit_code' =
                IF /\ built
                   /\ ran.result
                   /\ "RunQueuedCommands" \in Range(calls)
                   /\ run_queued_commands
                THEN 0 ELSE 0 - 1
  /\ unresolved_inputs' =
       IF all_known_packages THEN {}
       ELSE {raw \in Range(RawInputPackages) : Len(GetPackagePath(raw)) = 0}
  /\ UNCHANGED <<input_packages, all_known_packages, local_config, disk_paths,
                 invocation_action, packages_to_paths, registered_at_init,
                 registration_log, package_kinds, global_run_command>>
  /\ UNCHANGED otherThanPackages

IdlePackages ==
  /\ input_packages = <<>>
  /\ all_known_packages = FALSE
  /\ local_config = FALSE
  /\ disk_paths = {}
  /\ invocation_action = "Run"
  /\ pk_pc = "off"
  /\ packages_to_paths = EmptyMap
  /\ registered_at_init = EmptyMap
  /\ registration_log = <<>>
  /\ unresolved_inputs = {}
  /\ build_returned = TRUE
  /\ exit_code = 0
  /\ package_kinds = EmptyMap
  /\ global_run_command = FALSE
  /\ run_queue = <<>>
  /\ run_returned = "none"
  /\ main_calls = <<>>

----------------------------------------------------------------------------
(* build.cc, CopyAssetFilesForPackage: the asset walk of one package with  *)
(* two asset directories, the first holding the files x and y, the second  *)
(* a file x, and a destination directory.                                  *)

AssetSources == {<<"assets1", "x">>, <<"assets1", "y">>, <<"assets2", "x">>}

\* ForEachFile: output_directory / filename
AssetDestination(source) == <<"destination", source[2]>>

AssetFiles == AssetSources \cup {AssetDestination(source) : source \in AssetSources}

\* ForEachAssetFile: the asset directories in their order, the files of a
\* directory in the order the directory_iterator gives them.
AssetWalks ==
  {<<<<"assets1", "x">>, <<"assets1", "y">>, <<"assets2", "x">>>>,
   <<<<"assets1", "y">>, <<"assets1", "x">>, <<"assets2", "x">>>>}

CopyCommand(source, destination) ==
  [command |-> "cp", source_file |-> source, destination_file |-> destination]

CopyAssetWithoutTimestamp(st, source, destination) ==
  With(MemoizeTimestamp(MemoizeTimestamp(st.cache, source), destination),
       LAMBDA read :
         IF read[source] <= read[destination] THEN [st EXCEPT !.cache = read]
         ELSE [cache |-> read,
               queue |-> QueueCommandInto(st.queue, StageCopyAssets,
                                          CopyCommand(source, destination))])

\* CopyAssetIfNewer: the timestamp cache and the queue afterwards.
CopyAssetIfNewer(st, source, destination) ==
  With(MemoizeTimestamp(MemoizeTimestamp(st.cache, source), destination),
       LAMBDA read :
         IF read[source] <= read[destination] THEN [st EXCEPT !.cache = read]
         ELSE [cache |-> SetTimestampOfFileToNow(read, destination),
               queue |-> QueueCommandInto(st.queue, StageCopyAssets,
                                          CopyCommand(source, destination))])

\* How many commands the planner has queued.
QueuedCount(queue) ==
  IF StageCopyAssets \in DOMAIN queue THEN Len(queue[StageCopyAssets]) ELSE 0

\* ForEachAssetFile calls CopyAssetIfNewer for the next file of the walk.
CallCopyAssetIfNewer ==
  /\ as_pc = "walking"
  /\ asset_walk # <<>>
  /\ \E st \in {CopyAssetIfNewer(
                  [cache |-> timestamps_by_filename, queue |-> planned_commands],
                  Head(asset_walk), AssetDestination(Head(asset_walk)))} :
       /\ timestamps_by_filename' = st.cache
       /\ planned_commands' = st.queue
       /\ asset_log' =
            Append(asset_log,
                   [source |-> Head(asset_walk),
                    destination |-> AssetDestination(Head(asset_walk)),
                    queued |-> QueuedCount(st.queue) > QueuedCount(planned_commands),
                    at |-> now])
  /\ asset_walk' = Tail(asset_walk)
  /\ UNCHANGED <<now, mtime, dependencies_file,
                 dependencies_per_file_per_package, b_pc,
                 packages_with_invalidated_dependencies, b_stage, b_verbose,
                 any_failure, build_ok, clean, touched, as_pc>>
  /\ UNCHANGED otherThanAssets

\* The system clock goes on while the planner walks.
AssetClockTick ==
  /\ as_pc = "walking"
  /\ now < MaxStamp + 3
  /\ now' = now + 1
  /\ UNCHANGED <<mtime, dependencies_file, timestamps_by_filename,
                 dependencies_per_file_per_package, b_pc,
                 packages_with_invalidated_dependencies, planned_commands,
                 b_stage, b_verbose, any_failure, build_ok, clean, touched,
                 as_pc, asset_walk, asset_log>>
  /\ UNCHANGED otherThanAssets

IdleAssets ==
  /\ as_pc = "off"
  /\ asset_walk = <<>>
  /\ asset_log = <<>>

IdleReplace ==
  /\ placeholders_and_values = EmptyMap
  /\ rp_template = <<>>
  /\ rp_command = [str |-> <<>>, rounds |-> 0]
  /\ rp_pc = "off"

IdleLink ==
  /\ lk_applications = <<>>
  /\ lk_planned = 0
  /\ lk_commands = <<>>

\* No file: std::filesystem::exists(map_path) is false.
NoRepositoriesFile ==
  [json |-> "absent", map_kind |-> "missing", map |-> EmptyMap,
   next_kind |-> "missing", next |-> 0]

IdleRepos ==
  /\ repositories_file = NoRepositoriesFile
  /\ repository_dirs = {}
  /\ repositories_to_ids = EmptyMap
  /\ next_repository_id = 0
  /\ needs_flushing = FALSE
  /\ repository_map_loaded = FALSE
  /\ repo_pc = "off"
  /\ repo_runs = 0
  /\ load_failed = FALSE
  /\ removed_registered = {}

\* The packages of the dependency store.
StorePackageIds == {1, 2}

\* std::ifstream::is_open is false: there is no dependencies file.
NoDependenciesFile == [is_open |-> FALSE, lines |-> <<>>]

\* No call of SetDependenciesOfFile yet.
NoSet == [called |-> FALSE, package_id |-> 0, equal |-> FALSE,
          dependencies |-> EmptyMap, invalidated |-> {}]

IdleStore ==
  /\ ds_files = [p \in StorePackageIds |-> NoDependenciesFile]
  /\ ds_dependencies = EmptyMap
  /\ ds_invalidated = {}
  /\ ds_pc = "off"
  /\ ds_sets = 0
  /\ ds_runs = 0
  /\ ds_written = EmptyMap
  /\ ds_changed = {}
  /\ ds_rewritten = {}
  /\ ds_last_set = NoSet

\* The machines at the end of the module are not running.
IdleLater == IdleReplace /\ IdleLink /\ IdleRepos /\ IdleStore

----------------------------------------------------------------------------
(* The command queue as a state machine.                                   *)

InitQueue ==
  /\ IdleParse
  /\ IdleStale
  /\ IdlePackages
  /\ IdleAssets /\ IdleLater
  /\ IdleIds
  /\ IdleCons
  /\ IdleBuild
  /\ IdleQueue
  /\ verbose \in BOOLEAN
  /\ number_of_parallel_tasks \in (0 - 1)..MaxParallelTasks

NextQueue ==
  \/ \E s \in Stages : QueueCommand(s)
  \/ RunQueuedCommands
  \/ StageLoop
  \/ RunCommandsSpawn
  \/ \E status \in {0, 1} : SystemReturns(status)
  \/ RunCommandsReturn
  \/ \E t \in DOMAIN threads : WorkerLock(t)
  \/ \E t \in DOMAIN threads : WorkerGetNext(t)
  \/ \E t \in DOMAIN threads : WorkerSpawn(t)
  \/ \E t \in DOMAIN threads, status \in {0, 1} : WorkerChildExit(t, status)
  \/ \E t \in DOMAIN threads : WorkerReadDependencies(t)
  \/ \E t \in DOMAIN threads : WorkerRecordDependencies(t)
  \/ \E t \in DOMAIN threads : WorkerReport(t)
  \/ JoinThreads
  \/ RunQueuedCommandsReturn

SpecQueue == InitQueue /\ [][NextQueue]_vars

----------------------------------------------------------------------------
(* Properties of the command queue.                                        *)

Live == {c \in CommandIds : cmd_state[c] = "running"}

Terminated(c) == cmd_state[c] \in {"exit0", "exit1"}

C2_FailureReturnsFalse ==
  (q_pc = "returned" /\ \E c \in Queued : cmd_state[c] = "exit1")
    => run_result = "false"

\* C3: once a command of a parallel stage has exited non-zero, no command of
\* a later stage is ever spawned.
C3_NoStageAfterFailure ==
  \A c \in Queued, d \in Queued :
    (/\ cmd_state[d] = "exit1"
     /\ ~IsSequential(StageOf(d), verbose)
     /\ StageOf(d) < StageOf(c)) => cmd_state[c] = "queued"

\* C3 witness: RunQueuedCommands has returned after a command of a parallel
\* stage failed, with a command of a later stage queued and never spawned.
C3_Witness ==
  /\ q_pc = "returned"
  /\ \E c \in Queued, d \in Queued :
       /\ cmd_state[d] = "exit1"
       /\ ~IsSequential(StageOf(d), verbose)
       /\ StageOf(d) < StageOf(c)
       /\ cmd_state[c] = "queued"

\* C4 as stated: the number of live child processes never exceeds the
\* configured parallel_tasks (checked where a child process is live).
C4_Original == Live # {} => Cardinality(Live) <= number_of_parallel_tasks

\* C4 amended: the number of live child processes never exceeds parallel_tasks
\* or one, whichever is larger (a sequential stage always runs one child).
C4_BoundedParallelism ==
  Cardinality(Live) <= Max(1, number_of_parallel_tasks)

\* C4 witness: a parallel stage has as many live children as parallel_tasks
\* allows, more than one, with a further command still waiting in the queue.
C4_Witness ==
  /\ q_pc = "parallel"
  /\ number_of_parallel_tasks > 1
  /\ Cardinality(Live) = number_of_parallel_tasks
  /\ next_command_index < Len(deferred_commands_by_stage[stage])

\* The stage of command c has completed: ExecuteStage has returned for it.
StageCompleted(c) ==
  \/ stage > StageOf(c)
  \/ q_pc \in {"epilogue", "returned"} /\ stage = StageOf(c)

\* C25: once its stage has completed, every Compile command that was executed
\* and exited zero has a record in the dependency store, in the verbose
\* (sequential) mode as in the parallel mode, and a command that exited
\* non-zero has left the store as it was.
C25_ZeroExitIsRecorded ==
  \A c \in Queued :
    (StageOf(c) = StageCompile /\ StageCompleted(c)) =>
      /\ cmd_state[c] = "exit0" => c \in recorded_deps
      /\ cmd_state[c] = "exit1" => c \notin recorded_deps

\* C34: when ExecuteStage has reported success for a stage that holds
\* commands (RunQueuedCommands has gone on to a later stage), every command of
\* the stage has been spawned and has exited zero, whatever parallel_tasks is
\* and in the sequential as in the parallel mode.
C34_SuccessMeansAllExitedZero ==
  \A c \in Queued :
    stage > StageOf(c) => spawn_count[c] >= 1 /\ cmd_state[c] = "exit0"

\* The commands of a stage the worker pool runs.
InParallelStage(c) == ~IsSequential(StageOf(c), verbose)

\* The i-th command taken is the next one of its stage's queue.
TakenInQueueOrder(i) ==
  LET c == take_log[i][2]
      k == Cardinality({j \in 1..i : StageOf(take_log[j][2]) = StageOf(c)})
  IN  deferred_commands_by_stage[StageOf(c)][k] = c

\* The workers that were given command c.
TakenBy(c) == {take_log[i][1] : i \in {j \in 1..Len(take_log) : take_log[j][2] = c}}

\* The worker has left its while loop.
Stopped(t) == threads[t].pc \in {"report", "report_locked", "done"}

\* C26: in a parallel stage with parallel_tasks >= 1 the commands are taken in
\* queue order, each by one worker, and each taken command is spawned once,
\* also when a command of the stage has failed before; a worker stops only
\* when the queue of the stage is empty, and when the stage has returned every
\* worker has stopped, so that every command of the stage has been spawned
\* once and has terminated.
C26_EveryCommandTakenAndSpawnedOnce ==
  number_of_parallel_tasks >= 1 =>
    /\ \A i \in 1..Len(take_log) : TakenInQueueOrder(i)
    /\ \A c \in Queued :
         InParallelStage(c) =>
           /\ Cardinality(TakenBy(c)) <= 1
           /\ spawn_count[c] <= Cardinality(TakenBy(c))
           /\ StageCompleted(c) =>
                /\ Cardinality(TakenBy(c)) = 1
                /\ spawn_count[c] = 1
                /\ Terminated(c)
    /\ \A t \in DOMAIN threads :
         Stopped(t) =>
           next_command_index >= Len(deferred_commands_by_stage[stage])
    /\ q_pc # "parallel" => threads = NoThreads

\* C26 witness: RunQueuedCommands has returned; two workers ran the three
\* commands of a stage, the first command failed and the two behind it were
\* taken afterwards, spawned once each, and exited zero.
C26_Witness ==
  /\ q_pc = "returned"
  /\ number_of_parallel_tasks = 2
  /\ Len(take_log) = 3
  /\ {take_log[i][1] : i \in 1..Len(take_log)} = {0, 1}
  /\ cmd_state[take_log[1][2]] = "exit1"
  /\ cmd_state[take_log[2][2]] = "exit0"
  /\ cmd_state[take_log[3][2]] = "exit0"
  /\ StageOf(take_log[1][2]) = StageOf(take_log[3][2])
  /\ \A i \in 1..3 : spawn_count[take_log[i][2]] = 1

\* The commands worker t was given in the running stage before the one it
\* has now.
TakenBefore(t) ==
  {take_log[i][2] : i \in {j \in 1..Len(take_log) : take_log[j][1] = t}}
    \ {threads[t].command}

\* C27: in a Compile stage no two commands that run at the same time were
\* given the same dependency file; a worker that spawns a command has
\* recorded the dependencies of every command it ran successfully before;
\* and the dependencies recorded for the file of a command are the ones its
\* own compiler wrote, or its own source file if it names no dependency file.
C27_DependenciesOfOwnCommand ==
  /\ \A t1 \in DOMAIN threads, t2 \in DOMAIN threads :
       (/\ t1 # t2
        /\ stage = StageCompile
        /\ threads[t1].pc = "wait"
        /\ threads[t2].pc = "wait")
         => GetTempDependencyFilePath(t1) # GetTempDependencyFilePath(t2)
  /\ \A t \in DOMAIN threads :
       (stage = StageCompile /\ threads[t].pc \in {"spawn", "wait"}) =>
         \A d \in TakenBefore(t) :
           (StageOf(d) = StageCompile /\ cmd_state[d] = "exit0")
             => d \in recorded_deps
  /\ \A c \in CommandIds :
       /\ dependency_records[c].kind = "parsed" =>
            using_dependency_file[c] /\ dependency_records[c].of = c
       /\ dependency_records[c].kind = "source_file" =>
            ~using_dependency_file[c] /\ dependency_records[c].of = c
       /\ c \in recorded_deps <=> dependency_records[c].kind # "none"

\* C27 witness: RunQueuedCommands has returned; two workers compiled three
\* files whose commands all name the dependency file, so that one worker
\* wrote its file twice, and each file has the dependencies of its own
\* command.
C27_Witness ==
  /\ q_pc = "returned"
  /\ Len(take_log) = 3
  /\ {take_log[i][1] : i \in 1..Len(take_log)} = {0, 1}
  /\ \A c \in CommandIds :
       /\ StageOf(c) = StageCompile
       /\ using_dependency_file[c]
       /\ dependency_records[c] = [kind |-> "parsed", of |-> c]

\* What the workers share with each other and with the main thread.
QueueObjects ==
  {"next_command_index", "current_command_number", "queued_commands_count",
   "successful", "combined_output"}

DependencyStoreObjects ==
  {"dependencies_per_file_per_package",
   "packages_with_invalidated_dependencies"}

PlannerObjects ==
  {"timestamps_by_filename", "package_path_to_id", "metadata_by_package_name"}

\* C28: in a parallel stage every access to the dependency store is made
\* with dependencies_mutex held, every access to the queue cursor, the
\* progress counter, the success flag and the shared error buffer with the
\* queue mutex held; no worker holds both mutexes at once, and no worker
\* writes the timestamp cache, the package-ID map or the metadata map.
C28_MutexDiscipline ==
  /\ \A a \in accesses :
       /\ a.object \in DependencyStoreObjects =>
            a.mutexes = {"dependencies_mutex"}
       /\ a.object \in QueueObjects => a.mutexes = {"mutex"}
       /\ Cardinality(a.mutexes) <= 1
       /\ a.object \in PlannerObjects => ~a.write
  /\ \A t \in DOMAIN threads : Cardinality(HeldBy(t)) <= 1
  /\ \A t \in DOMAIN threads :
       /\ mutex = t <=> threads[t].pc \in {"get_locked", "report_locked"}
       /\ dependencies_mutex = t <=> threads[t].pc = "record_locked"

\* C28 witness: a worker that saw a failure holds the queue mutex at its end
\* while another worker holds dependencies_mutex to record the dependencies
\* of a file, after the cursor and the counter have been moved.
C28_Witness ==
  /\ q_pc = "parallel"
  /\ \E t1 \in DOMAIN threads, t2 \in DOMAIN threads :
       /\ threads[t1].pc = "report_locked"
       /\ threads[t2].pc = "record_locked"
       /\ mutex = t1
       /\ dependencies_mutex = t2
  /\ \E a \in accesses : a.object = "next_command_index" /\ a.write
  /\ \E a \in accesses : a.object = "current_command_number"

----------------------------------------------------------------------------
(* The package-ID registry as a state machine.                             *)

InitIds ==
  /\ IdleIds /\ IdleQueueConfig /\ IdleCons /\ IdleBuild /\ IdleParse /\ IdleStale
  /\ IdlePackages /\ IdleAssets /\ IdleLater

NextIds ==
  \/ InitializePackageIDs
  \/ \E p \in Paths : GetIDOfPackageFromPath(p)
  \/ FlushPackageIDs
  \/ \E p \in Paths : DeletePath(p)
  \/ \E p \in Paths : CreatePath(p)

SpecIds == InitIds /\ [][NextIds]_vars

----------------------------------------------------------------------------
(* Properties of the package-ID registry.                                  *)

\* C7: a path that exists when the persisted map is reloaded gets, from
\* GetIDOfPackageFromPath, the ID it was given in the previous invocation
\* (which ended with FlushPackageIDs).
C7_IdStableAcrossReload ==
  \A p \in (DOMAIN returned) \cap (DOMAIN prev_returned) :
    p \in existed_at_init => returned[p] = prev_returned[p]

\* C7 witness: a second invocation has returned, for a path requested in the
\* previous invocation, an ID other than 0 that was read back from the file.
C7_Witness ==
  \E p \in (DOMAIN returned) \cap (DOMAIN prev_returned) :
    /\ p \in existed_at_init
    /\ p \notin allocated
    /\ returned[p] > 0
    /\ package_ids_file # NoFile

\* C8: a recorded path that is missing when InitializePackageIDs runs is not
\* in the in-memory map afterwards, the scratch directory of its old ID is
\* gone, the map is dirty, and what FlushPackageIDs writes does not contain
\* the entry (until the path is requested again, which makes a new entry).
C8_RetiredEntryDropped ==
  \A e \in retired :
    /\ (id_pc = "running" /\ allocated = {}) =>
         /\ e[1] \notin DOMAIN package_path_to_id
         /\ e[2] \notin scratch_dirs
         /\ package_ids_invalidated
         /\ PathString(e[1]) \notin Range(FlushLines(package_path_to_id))
    /\ (id_pc = "off" /\ e[1] \notin allocated) =>
         /\ package_ids_file # NoFile
         /\ PathString(e[1]) \notin Range(package_ids_file)

\* C8 witness: an entry was retired and the map has been flushed without it,
\* while another entry survived.
C8_Witness ==
  /\ id_pc = "off"
  /\ \E e \in retired : e[1] \notin allocated /\ e[2] > 0
  /\ package_path_to_id # EmptyMap
  /\ package_ids_file # NoFile

\* C9 as stated: a retired path that is re-created and requested again gets
\* an ID different from the one it had before retirement.
C9_Original ==
  \A e \in retired :
    e[1] \in allocated => package_path_to_id[e[1]] # e[2]

\* C9 amended: the new ID differs from the old one unless the retired entry
\* held an ID larger than the ID of every entry that survived the reload.
C9_FreshUnlessLargest ==
  \A e \in retired :
    e[1] \in allocated =>
      \/ package_path_to_id[e[1]] # e[2]
      \/ \A q \in (DOMAIN package_path_to_id) \ allocated :
           package_path_to_id[q] < e[2]

\* C9 witness: a retired path was requested again while a surviving entry
\* holds a larger ID, and it got a new ID.
C9_Witness ==
  \E e \in retired :
    /\ e[1] \in allocated
    /\ \E q \in (DOMAIN package_path_to_id) \ allocated :
         package_path_to_id[q] > e[2]
    /\ package_path_to_id[e[1]] # e[2]

\* C38: over every sequence of invocations (InitializePackageIDs with its
\* retirements, GetIDOfPackageFromPath, FlushPackageIDs) distinct paths of the
\* in-memory map have distinct IDs and next_package_number is greater than
\* every ID of the map; while a process runs, every scratch directory that
\* exists belongs to a package of the map, so that a new ID is the ID of no
\* live package and of no scratch directory in use.
C38_IdsDistinctBelowNext ==
  /\ \A p, q \in DOMAIN package_path_to_id :
       p # q => package_path_to_id[p] # package_path_to_id[q]
  /\ \A p \in DOMAIN package_path_to_id :
       package_path_to_id[p] < next_package_number
  /\ id_pc = "running" =>
       /\ next_package_number \notin scratch_dirs
       /\ \A d \in scratch_dirs :
            \E p \in DOMAIN package_path_to_id : package_path_to_id[p] = d

\* C38 witness: a process that read the file of an earlier one retired an
\* entry, kept another and has given a new ID to a further path.
C38_Witness ==
  /\ id_pc = "running"
  /\ package_ids_file # NoFile
  /\ retired # {}
  /\ \E p \in allocated, q \in (DOMAIN package_path_to_id) \ allocated :
       /\ package_path_to_id[q] > 0
       /\ package_path_to_id[p] > package_path_to_id[q]

----------------------------------------------------------------------------
(* Metadata consolidation as a state machine.                              *)

InitCons ==
  /\ IdleParse
  /\ IdleStale
  /\ IdlePackages
  /\ IdleAssets /\ IdleLater
  /\ IdleIds
  /\ IdleQueueConfig
  /\ IdleBuild
  /\ package_configs \in
       {ConfigsFor(declarations, r_dependencies, p_dependencies, q_kind) :
          declarations \in Declarations,
          r_dependencies \in {<<"P">>, <<"P", "Q">>, <<"Q", "P">>,
                               <<"R", "P", "P">>},
          p_dependencies \in {<<>>, <<"Q">>, <<"R">>, <<"P", "Q">>},
          q_kind \in {"library", "application", "missing"}}
  /\ metadata_by_package_name = EmptyMap
  /\ metadata_requests = 0
  /\ last_metadata = <<"none", "none">>
  /\ first_consolidated = EmptyMap

NextCons == \E package_name \in {"R", "P"} :
              CallGetMetadataForPackage(package_name)

SpecCons == InitCons /\ [][NextCons]_vars

\* The commands that exited non-zero in a stage the worker pool ran.
FailedInParallel ==
  {c \in Queued : cmd_state[c] = "exit1" /\ ~IsSequential(StageOf(c), verbose)}

\* C18: once a stage of the worker pool has ended with failures, the
\* aggregated error buffer holds the output of every command that exited
\* non-zero, each once, and of no command that exited zero; nothing is written
\* to the error channel while the stages run, and the buffer is written there
\* exactly once when RunQueuedCommands returns.
C18_ErrorBufferHoldsFailuresOnly ==
  /\ (q_pc \in {"epilogue", "returned"} /\ ~rq_successful) =>
       /\ Range(combined_output) = FailedInParallel
       /\ Len(combined_output) = Cardinality(FailedInParallel)
       /\ \A c \in Range(combined_output) : cmd_state[c] # "exit0"
  /\ q_pc # "returned" => stderr_writes = 0
  /\ q_pc = "returned" => stderr_writes = (IF rq_successful THEN 0 ELSE 1)

\* C18 witness: RunQueuedCommands has returned false; one worker ran two
\* commands of a stage, one exited zero and the other non-zero, and the error
\* buffer holds the failed one only and was written once.
C18_Witness ==
  /\ q_pc = "returned"
  /\ number_of_parallel_tasks = 1
  /\ stderr_writes = 1
  /\ \E c \in Queued, d \in Queued :
       /\ StageOf(c) = StageOf(d)
       /\ ~IsSequential(StageOf(c), verbose)
       /\ cmd_state[c] = "exit1"
       /\ cmd_state[d] = "exit0"
       /\ combined_output = <<c>>

----------------------------------------------------------------------------
(* Properties of metadata consolidation.                                   *)

HasLeadingDash(define) == Len(define) > 0 /\ define[1] = "-"

DeclaredDependencies(names) ==
  UNION {Range(package_configs[n].dependencies) :
           n \in names \cap DOMAIN package_configs}

RECURSIVE DependencyClosure(_)
DependencyClosure(names) ==
  LET more == names \cup DeclaredDependencies(names)
  IN IF more = names THEN names ELSE DependencyClosure(more)

\* The dependencies the walk from p visits: everything reachable from p
\* through dependency edges, p itself excepted.
VisitedFrom(p) == DependencyClosure(DeclaredDependencies({p})) \ {p}

\* The defines p's consolidation is given: p's private and public defines and
\* the public defines of every visited dependency.
DefineSources(p) ==
  Range(package_configs[p].defines)
    \cup Range(package_configs[p].public_defines)
    \cup UNION {Range(package_configs[q].public_defines) :
                  q \in VisitedFrom(p) \cap DOMAIN package_configs}

PositiveDefines(p) == {d \in DefineSources(p) : ~HasLeadingDash(d)}

Undefines(p) == {Tail(d) : d \in {x \in DefineSources(p) : HasLeadingDash(x)}}

\* The list of packages a package names as its dependencies, empty for a
\* package that is not on disk.
DependenciesOf(package_name) ==
  IF package_name \in DOMAIN package_configs
  THEN package_configs[package_name].dependencies ELSE <<>>

\* Where a breadth-first walk that has visited <<root>> \o order discovers
\* package_name: the first visited package that names it and the place of the
\* name in that package's list.
Discovery(root, order, package_name) ==
  LET visited == <<root>> \o order
      parent == CHOOSE i \in 1..Len(visited) :
                  /\ package_name \in Range(DependenciesOf(visited[i]))
                  /\ \A j \in 1..(i - 1) :
                       package_name \notin Range(DependenciesOf(visited[j]))
      place == CHOOSE k \in 1..Len(DependenciesOf(visited[parent])) :
                 /\ DependenciesOf(visited[parent])[k] = package_name
                 /\ \A l \in 1..(k - 1) :
                      DependenciesOf(visited[parent])[l] # package_name
  IN <<parent, place>>

Earlier(d1, d2) == d1[1] < d2[1] \/ (d1[1] = d2[1] /\ d1[2] < d2[2])

\* C31: consolidation ends for every set of declarations, also when packages
\* name each other or themselves, and the consolidated_dependencies of a
\* consolidated package hold every package its declarations reach, each
\* once, never the package itself, in the order a breadth-first walk
\* discovers them.
C31_BreadthFirstOnce ==
  \A root \in DOMAIN metadata_by_package_name :
    metadata_by_package_name[root].has_consolidated_information =>
      LET order == metadata_by_package_name[root].consolidated_dependencies
      IN /\ Range(order) = VisitedFrom(root)
         /\ \A i, j \in 1..Len(order) :
              i < j => /\ order[i] # order[j]
                       /\ Earlier(Discovery(root, order, order[i]),
                                  Discovery(root, order, order[j]))

\* C31 witness: R, which names itself and names P twice, has been
\* consolidated to <<P, Q>> while P and Q name each other.
C31_Witness ==
  /\ "R" \in DOMAIN metadata_by_package_name
  /\ metadata_by_package_name["R"].has_consolidated_information
  /\ package_configs["R"].dependencies = <<"R", "P", "P">>
  /\ "Q" \in Range(package_configs["P"].dependencies)
  /\ "Q" \in DOMAIN package_configs
  /\ "P" \in Range(package_configs["Q"].dependencies)
  /\ metadata_by_package_name["R"].consolidated_dependencies = <<"P", "Q">>

\* C10: the set of a consolidated package's consolidated defines is D minus U:
\* the defines without a leading '-' minus the names given with a leading '-',
\* whichever of the two the walk encounters first.
C10_DefinesAreDMinusU ==
  \A p \in DOMAIN metadata_by_package_name :
    metadata_by_package_name[p].has_consolidated_information =>
      Range(metadata_by_package_name[p].consolidated_defines)
        = PositiveDefines(p) \ Undefines(p)

\* C10 witness: R is consolidated, its own defines undefine a name that a
\* visited dependency defines publicly, so the undefine is met first.
C10_Witness ==
  /\ "R" \in DOMAIN metadata_by_package_name
  /\ metadata_by_package_name["R"].has_consolidated_information
  /\ \E q \in VisitedFrom("R"), d \in PositiveDefines("R") :
       /\ d \in Range(package_configs[q].public_defines)
       /\ <<"-">> \o d \in Range(package_configs["R"].defines)
       /\ d \notin Range(metadata_by_package_name["R"].consolidated_defines)

\* A package whose consolidation has completed.
IsConsolidated(p) ==
  /\ p \in DOMAIN metadata_by_package_name
  /\ metadata_by_package_name[p].has_consolidated_information

\* The public defines of the packages of a sequence, one package after another.
RECURSIVE PublicDefinesAlong(_)
PublicDefinesAlong(names) ==
  IF names = <<>> THEN <<>>
  ELSE package_configs[Head(names)].public_defines
         \o PublicDefinesAlong(Tail(names))

\* The defines handed to add_define for p, in the order of the calls: the
\* root's private defines, its public defines, then the public defines of the
\* dependencies in the order the walk visited them.
DefineInsertions(p) ==
  package_configs[p].defines \o package_configs[p].public_defines
    \o PublicDefinesAlong(metadata_by_package_name[p].consolidated_dependencies)

\* The position at which a value first occurs in a sequence.
FirstSeen(seq, d) ==
  CHOOSE i \in 1..Len(seq) : seq[i] = d /\ \A j \in 1..(i - 1) : seq[j] # d

\* C11 as stated: the consolidated defines are in first-seen order: a define
\* first added before another one precedes it in consolidated_defines.
C11_Original ==
  \A p \in DOMAIN metadata_by_package_name :
    IsConsolidated(p) =>
      LET defines == metadata_by_package_name[p].consolidated_defines
      IN \A i, j \in 1..Len(defines) :
           i < j => FirstSeen(DefineInsertions(p), defines[i])
                      < FirstSeen(DefineInsertions(p), defines[j])

\* C11 amended: the consolidated defines are in ascending order of the strings
\* (the iteration order of std::set<std::string>), whatever the order in which
\* they were added.
C11_SortedOrder ==
  \A p \in DOMAIN metadata_by_package_name :
    IsConsolidated(p) =>
      LET defines == metadata_by_package_name[p].consolidated_defines
      IN \A i, j \in 1..Len(defines) :
           i < j => StringLess(defines[i], defines[j])

\* C11 witness: R is consolidated with two surviving defines of which the one
\* added later comes first in consolidated_defines.
C11_Witness ==
  /\ IsConsolidated("R")
  /\ LET defines == metadata_by_package_name["R"].consolidated_defines
     IN /\ Len(defines) = 2
        /\ FirstSeen(DefineInsertions("R"), defines[1])
             > FirstSeen(DefineInsertions("R"), defines[2])

\* The include directories of q that exist, as add_include_directory gets them.
ExistingDirectories(q, include_directories) ==
  LET existing == SelectSeq(include_directories,
                            LAMBDA dir : dir \in package_configs[q].existing_directories)
  IN [i \in 1..Len(existing) |->
        [path |-> <<q, existing[i]>>,
         priority |-> package_configs[q].include_priorty]]

RECURSIVE PublicIncludesAlong(_)
PublicIncludesAlong(names) ==
  IF names = <<>> THEN <<>>
  ELSE ExistingDirectories(Head(names),
                           package_configs[Head(names)].public_include_directories)
         \o PublicIncludesAlong(Tail(names))

\* The include directories contributed to p, in the order of contribution.
IncludeInsertions(p) ==
  ExistingDirectories(p, package_configs[p].include_directories)
    \o ExistingDirectories(p, package_configs[p].public_include_directories)
    \o PublicIncludesAlong(metadata_by_package_name[p].consolidated_dependencies)

\* C12: the consolidated includes are the contributed directories, each once
\* per contribution, in ascending priority of the contributing package, and
\* in the order of contribution among equal priorities.
C12_IncludesStableByPriority ==
  \A p \in DOMAIN metadata_by_package_name :
    IsConsolidated(p) =>
      LET contributed == IncludeInsertions(p)
          includes == metadata_by_package_name[p].consolidated_includes
          n == Len(contributed)
      IN /\ Len(includes) = n
         /\ \E f \in [1..n -> 1..n] :
              /\ \A i, j \in 1..n : i # j => f[i] # f[j]
              /\ \A i \in 1..n : includes[i] = contributed[f[i]].path
              /\ \A i, j \in 1..n :
                   i < j =>
                     \/ contributed[f[i]].priority < contributed[f[j]].priority
                     \/ /\ contributed[f[i]].priority = contributed[f[j]].priority
                        /\ f[i] < f[j]

\* C12 witness: R is consolidated, the directory of the lower-priority Q,
\* contributed last, comes first, and the directories of equal priority follow
\* in the order R private, R public, P public.
C12_Witness ==
  /\ IsConsolidated("R")
  /\ metadata_by_package_name["R"].consolidated_dependencies = <<"P", "Q">>
  /\ metadata_by_package_name["R"].consolidated_includes
       = << <<"Q", "include">>, <<"R", "source">>, <<"R", "include">>,
            <<"P", "include">> >>

\* C13: a second request for a package's metadata leaves its consolidated
\* defines, dependencies, includes and library objects as they were after the
\* first request.
C13_SecondRequestChangesNothing ==
  \A p \in DOMAIN first_consolidated :
    ConsolidatedFields(metadata_by_package_name[p]) = first_consolidated[p]

\* C39: a package whose consolidation has not succeeded has empty
\* consolidated fields, so that a later request starts from nothing and no
\* dependency is listed twice.
C39_FailedConsolidationLeavesNothing ==
  \A p \in DOMAIN metadata_by_package_name :
    ~metadata_by_package_name[p].has_consolidated_information =>
      /\ metadata_by_package_name[p].consolidated_defines = <<>>
      /\ metadata_by_package_name[p].consolidated_dependencies = <<>>
      /\ metadata_by_package_name[p].consolidated_includes = <<>>
      /\ metadata_by_package_name[p].consolidated_library_objects = <<>>

\* C19: of a visited dependency q, p's consolidated defines hold no define
\* that comes only from q's private defines, p's consolidated includes hold
\* q's directories only if they are public and exist, and p does receive every
\* existing public include directory and every public define of q that no
\* undefine removes.
C19_OnlyPublicPropagates ==
  \A p \in DOMAIN metadata_by_package_name :
    IsConsolidated(p) =>
      LET defines == Range(metadata_by_package_name[p].consolidated_defines)
          includes == Range(metadata_by_package_name[p].consolidated_includes)
      IN \A q \in Range(metadata_by_package_name[p].consolidated_dependencies) :
           /\ \A d \in Range(package_configs[q].defines) :
                d \in defines => d \in PositiveDefines(p)
           /\ \A path \in includes :
                path[1] = q =>
                  /\ path[2] \in Range(package_configs[q].public_include_directories)
                  /\ path[2] \in package_configs[q].existing_directories
           /\ \A dir \in Range(package_configs[q].public_include_directories) :
                dir \in package_configs[q].existing_directories
                  => <<q, dir>> \in includes
           /\ \A d \in Range(package_configs[q].public_defines) :
                (~HasLeadingDash(d) /\ d \notin Undefines(p)) => d \in defines

\* C19 witness: R is consolidated after visiting P, P has a private define
\* that no public source gives and an existing private include directory, and
\* neither reached R.
C19_Witness ==
  /\ IsConsolidated("R")
  /\ "P" \in Range(metadata_by_package_name["R"].consolidated_dependencies)
  /\ \E d \in Range(package_configs["P"].defines) :
       /\ ~HasLeadingDash(d)
       /\ d \notin PositiveDefines("R")
       /\ d \notin Range(metadata_by_package_name["R"].consolidated_defines)
  /\ "private" \in package_configs["P"].existing_directories
  /\ <<"P", "private">>
       \notin Range(metadata_by_package_name["R"].consolidated_includes)
  /\ <<"P", "include">>
       \in Range(metadata_by_package_name["R"].consolidated_includes)

----------------------------------------------------------------------------
(* The build planner as a state machine.                                   *)

InitBuild ==
  /\ IdleIds /\ IdleQueueConfig /\ IdleBuild /\ IdleParse /\ IdleStale
  /\ IdlePackages /\ IdleAssets /\ IdleLater
  /\ package_configs \in BuildScenarios
  /\ metadata_by_package_name = EmptyMap
  /\ metadata_requests = 0
  /\ last_metadata = <<"none", "none">>
  /\ first_consolidated = EmptyMap

NextBuild ==
  \/ \E v \in BOOLEAN : BuildPackages(v)
  \/ ExecuteBuildStage
  \/ FlushDependencies
  \/ \E file \in Touchable : Touch(file)

SpecBuild == InitBuild /\ [][NextBuild]_vars

----------------------------------------------------------------------------
(* Properties of the build planner.                                        *)

\* The commands BuildPackages queued, whatever their stage.
PlannedCommands ==
  UNION {Range(planned_commands[s]) : s \in DOMAIN planned_commands}

\* C5: planning again after a fully successful build of A and L, with no file
\* modified in between, queues no command at all.
C5_NothingQueuedOnReplan ==
  (b_pc = "planned" /\ clean /\ touched = {}) => PlannedCommands = {}

\* C6: planning after a fully successful build of A and L and a newer
\* modification time of exactly one source file of A queues exactly one Compile
\* command, for that source, and one link command for A, and nothing for L.
C6_OneCompileOneLink ==
  \A source_file \in Range(SourceFiles("A")) :
    (b_pc = "planned" /\ clean /\ touched = {source_file}) =>
      planned_commands =
        (StageCompile :> <<CompileCommand("A", source_file)>>)
          @@ (StageLinkApplication :>
                <<LinkCommand("A", ObjectFilesToLink(
                                     metadata_by_package_name["A"]))>>)

\* The walk of p's consolidation meets a dependency that is not found or is
\* not a library.
ReachesUnusableDependency(p) ==
  \E q \in VisitedFrom(p) :
    q \notin DOMAIN package_configs \/ package_configs[q].type # "library"

\* C14: once the planner has run, a package whose consolidation meets a
\* dependency that is missing or not a library has no metadata to give
\* (GetMetadataForPackage returns nullptr), the planning has failed, and no
\* Compile or link command is queued for the package.
C14_FailedConsolidationQueuesNothing ==
  \A p \in DOMAIN package_configs :
    (b_pc = "planned" /\ ReachesUnusableDependency(p)) =>
      /\ GetMetadataForPackage(metadata_by_package_name, BuildConfigs, p).result
           = "nullptr"
      /\ ~build_ok
      /\ \A command \in PlannedCommands : command.package_id # p

\* C14 witness: the planner has run for A, whose dependency L is an
\* application, the sources of A have never been compiled, and the planning
\* failed with A's failed consolidation on record.
C14_Witness ==
  /\ b_pc = "planned"
  /\ package_configs["L"].type = "application"
  /\ ReachesUnusableDependency("A")
  /\ "A" \in DOMAIN metadata_by_package_name
  /\ ~metadata_by_package_name["A"].has_consolidated_information
  /\ mtime[ObjectFile(<<"source", "a1">>)] = 0
  /\ ~build_ok

\* C21: once the planner has run, a package with no_output_file has no Compile
\* or link command queued for it and its output object is in no link list,
\* while a library with no_output_file is accepted as a dependency and its
\* public defines and public include directories are in the consolidated
\* lists of the application that depends on it.
C21_NoOutputFileQueuesNothing ==
  \A p \in DOMAIN package_configs :
    (b_pc = "planned" /\ package_configs[p].no_output_file) =>
      /\ \A command \in PlannedCommands :
           /\ command.package_id # p
           /\ OutputObject(p) \notin Range(command.object_files_to_link)
      /\ \A q \in DOMAIN metadata_by_package_name :
           OutputObject(p)
             \notin Range(metadata_by_package_name[q].consolidated_library_objects)
      /\ \A q \in DOMAIN package_configs :
           (/\ package_configs[p].type = "library"
            /\ package_configs[q].dependencies = <<p>>) =>
             /\ build_ok
             /\ metadata_by_package_name[q].has_consolidated_information
             /\ p \in Range(metadata_by_package_name[q].consolidated_dependencies)
             /\ Range(package_configs[p].public_defines)
                  \subseteq Range(metadata_by_package_name[q].consolidated_defines)
             /\ \A dir \in Range(package_configs[p].public_include_directories) :
                  <<p, dir>>
                    \in Range(metadata_by_package_name[q].consolidated_includes)

\* C21 witness: the planner has run for A, which depends on the library L
\* with no_output_file; A's link command is queued without L's output object,
\* and L's public define is among A's consolidated defines.
C21_Witness ==
  /\ b_pc = "planned"
  /\ package_configs["L"].no_output_file
  /\ package_configs["L"].type = "library"
  /\ build_ok
  /\ \E command \in PlannedCommands :
       /\ command.command = "link"
       /\ command.package_id = "A"
       /\ OutputObject("L") \notin Range(command.object_files_to_link)
       /\ ObjectFile(<<"source", "a1">>) \in Range(command.object_files_to_link)
  /\ <<"B">> \in Range(metadata_by_package_name["A"].consolidated_defines)

\* A link command is queued for the package.
LinkQueuedFor(package_name) ==
  \E command \in PlannedCommands :
    command.command = "link" /\ command.package_id = package_name

\* The application's link list holds the output object of the library.
StaticallyLinks(application, library) ==
  /\ application \in DOMAIN metadata_by_package_name
  /\ metadata_by_package_name[application].type = "application"
  /\ OutputObject(library)
       \in Range(metadata_by_package_name[application].consolidated_library_objects)

\* Within every stage the commands of package_name come before the commands
\* of the application.
PlannedBefore(package_name, application) ==
  \A s \in DOMAIN planned_commands :
    \A i \in 1..Len(planned_commands[s]), j \in 1..Len(planned_commands[s]) :
      (/\ planned_commands[s][i].package_id = application
       /\ planned_commands[s][j].package_id = package_name) => j < i

----------------------------------------------------------------------------
(* The dependency-file parser on every short text.                         *)

InitParse ==
  /\ IdleIds /\ IdleQueueConfig /\ IdleCons /\ IdleBuild /\ IdleStale
  /\ IdlePackages /\ IdleAssets /\ IdleLater
  /\ rd_pc = "written"
  /\ dependencies_read = <<>>
  /\ \/ dependency_file = [is_open |-> FALSE, contents |-> <<>>]
     \/ \E n \in 0..MaxInputLen :
          \E contents \in [1..n -> DependencyFileChars] :
            dependency_file = [is_open |-> TRUE, contents |-> contents]

NextParse == CallReadDependenciesFromFile

SpecParse == InitParse /\ [][NextParse]_vars

\* The text after the first ':' of a text, empty if it has none.
AfterFirstColon(text) ==
  IF \A i \in 1..Len(text) : text[i] # ":" THEN <<>>
  ELSE LET colon == CHOOSE i \in 1..Len(text) :
                      text[i] = ":" /\ \A j \in 1..(i - 1) : text[j] # ":"
       IN SubSeq(text, colon + 1, Len(text))

\* The tokens of a text, read left to right: a backslash followed by a space
\* adds a space to the current token, any other space, newline, carriage
\* return or backslash ends it, and any other character is added to it.  A
\* token is [text, plain]: plain says that some character of it was not an
\* escaped space.  Tokens without a character are not listed.
RECURSIVE TokensOf(_, _)
TokensOf(text, current) ==
  LET emitted == IF current.text = <<>> THEN <<>> ELSE <<current>>
  IN IF text = <<>> THEN emitted
     ELSE IF Len(text) >= 2 /\ text[1] = "\\" /\ text[2] = " "
     THEN TokensOf(SubSeq(text, 3, Len(text)),
                   [current EXCEPT !.text = Append(@, " ")])
     ELSE IF text[1] \in {" ", "\n", "\r", "\\"}
     THEN emitted \o TokensOf(Tail(text), [text |-> <<>>, plain |-> FALSE])
     ELSE TokensOf(Tail(text),
                   [text |-> Append(current.text, text[1]), plain |-> TRUE])

Tokens(file) ==
  IF ~file.is_open THEN <<>>
  ELSE TokensOf(AfterFirstColon(file.contents),
                [text |-> <<>>, plain |-> FALSE])

TextsOf(tokens) == [i \in 1..Len(tokens) |-> tokens[i].text]

\* The example of the dependency file 'foo.o: src/a.c src/b\ c.h \', newline,
\* '  src/d.h'.
ExampleDependencyFile ==
  [is_open |-> TRUE,
   contents |->
     <<"f", "o", "o", ".", "o", ":", " ", "s", "r", "c", "/", "a", ".", "c",
       " ", "s", "r", "c", "/", "b", "\\", " ", "c", ".", "h", " ", "\\",
       "\n", " ", " ", "s", "r", "c", "/", "d", ".", "h">>]

ExampleDependencies ==
  << <<"s", "r", "c", "/", "a", ".", "c">>,
     <<"s", "r", "c", "/", "b", " ", "c", ".", "h">>,
     <<"s", "r", "c", "/", "d", ".", "h">> >>

\* C16 as stated: ReadDependenciesFromFile returns every non-empty token
\* after the first ':', in order, with each backslash-space turned into a
\* space.
C16_Original ==
  rd_pc = "read" => dependencies_read = TextsOf(Tokens(dependency_file))

\* C16 amended: ReadDependenciesFromFile returns, in order, the tokens after
\* the first ':' that hold at least one character other than an escaped
\* space, with each backslash-space turned into a space; and the example file
\* gives src/a.c, 'src/b c.h', src/d.h.
C16_TokensWithAPlainCharacter ==
  /\ rd_pc = "read" =>
       dependencies_read
         = TextsOf(SelectSeq(Tokens(dependency_file), LAMBDA token : token.plain))
  /\ ReadDependenciesFromFile(ExampleDependencyFile) = ExampleDependencies

\* C16 witness: the file has been read and a returned path holds a space that
\* was escaped in the file, next to other characters.
C16_Witness ==
  /\ rd_pc = "read"
  /\ \E i \in 1..Len(dependencies_read) :
       /\ " " \in Range(dependencies_read[i])
       /\ "a" \in Range(dependencies_read[i])

----------------------------------------------------------------------------
(* The staleness test within one invocation.                               *)

\* What the dependency file of A may record for StaleObject: nothing, an
\* empty list, its source, or its source and a file that a link command of
\* this build writes.
StaleRecords ==
  {EmptyMap,
   StaleObject :> <<>>,
   StaleObject :> << <<"source", "a1">> >>,
   StaleObject :> << <<"source", "a1">>, OutputObject("L") >>}

InitStale ==
  /\ IdleIds /\ IdleQueueConfig /\ IdleCons /\ IdleParse /\ IdlePackages
  /\ IdleAssets /\ IdleLater
  /\ now = MaxStamp + 1
  /\ \E object_time \in 0..MaxStamp, source_time \in 0..MaxStamp,
        output_time \in 0..MaxStamp :
       mtime = [f \in Files |->
                  IF f = StaleObject THEN object_time
                  ELSE IF f = <<"source", "a1">> THEN source_time
                  ELSE IF f = OutputObject("L") THEN output_time
                  ELSE 1]
  /\ \E record \in StaleRecords :
       dependencies_file = ("A" :> record) @@ ("L" :> EmptyMap)
  /\ b_pc = "off"
  /\ timestamps_by_filename = EmptyMap
  /\ dependencies_per_file_per_package = EmptyMap
  /\ packages_with_invalidated_dependencies = {}
  /\ planned_commands = EmptyMap
  /\ b_stage = 0
  /\ build_ok = TRUE
  /\ b_verbose = FALSE
  /\ any_failure = FALSE
  /\ clean = FALSE
  /\ touched = {}
  /\ st_pc = "planning"
  /\ set_to_now_after = EmptyMap

NextStale ==
  \/ \E threshold_timestamp \in 1..MaxStamp :
       CallAreDependenciesNewerThanFile(threshold_timestamp)
  \/ \E file \in StaleFiles : CallGetTimestampOfFile(file)
  \/ \E file \in OutputFiles : CallSetTimestampOfFileToNow(file)
  \/ \E package_id \in {"A", "L"} : CallGetDependenciesForPackage(package_id)

SpecStale == InitStale /\ [][NextStale]_vars

\* What AreDependenciesNewerThanFile answers now for StaleObject of A.
StaleNow(threshold_timestamp) ==
  AreDependenciesNewerThanFile(
    LoadedDependencies(dependencies_per_file_per_package, "A")["A"],
    timestamps_by_filename, threshold_timestamp, StaleObject)

\* The recorded dependencies of StaleObject.
RecordedDependencies ==
  IF StaleObject \in DOMAIN dependencies_file["A"]
  THEN Range(dependencies_file["A"][StaleObject]) ELSE {}

\* C17 as stated: once the test has answered false for a threshold, it answers
\* false for that threshold for the rest of the invocation, whatever
\* timestamp reads, set-to-now on outputs and dependency loads happen.
C17_Original ==
  \A threshold_timestamp \in DOMAIN set_to_now_after :
    ~StaleNow(threshold_timestamp)

\* C17 amended: once the test has answered false for a threshold, it answers
\* false for that threshold for the rest of the invocation as long as no
\* recorded dependency of the file has been set to now since.
C17_StaysFalseUnlessDependencySetToNow ==
  \A threshold_timestamp \in DOMAIN set_to_now_after :
    (set_to_now_after[threshold_timestamp] \cap RecordedDependencies = {})
      => ~StaleNow(threshold_timestamp)

\* C17 witness: the test answered false, an output that is no recorded
\* dependency was set to now afterwards, the timestamps of the object and of
\* its source are cached, and the test still answers false.
C17_Witness ==
  \E threshold_timestamp \in DOMAIN set_to_now_after :
    /\ set_to_now_after[threshold_timestamp] # {}
    /\ set_to_now_after[threshold_timestamp] \cap RecordedDependencies = {}
    /\ {StaleObject, <<"source", "a1">>} \subseteq DOMAIN timestamps_by_filename
    /\ "L" \in DOMAIN dependencies_per_file_per_package
    /\ ~StaleNow(threshold_timestamp)

\* The timestamp of a file as the process sees it now.
TimestampNow(file) == GetTimestampOfFile(timestamps_by_filename, file)

\* C24: AreDependenciesNewerThanFile answers true exactly if the object's
\* timestamp is 0, or the threshold is greater than it, or the dependency map
\* of the package has no record for the object, or a recorded dependency has
\* timestamp 0 or a timestamp greater than the object's; with a record that
\* lists no dependency it answers false unless one of the first two holds.
C24_StaleExactlyIf ==
  \A threshold_timestamp \in 0..(MaxStamp + 1) :
    StaleNow(threshold_timestamp)
      <=> \/ TimestampNow(StaleObject) = 0
          \/ threshold_timestamp > TimestampNow(StaleObject)
          \/ StaleObject \notin DOMAIN dependencies_file["A"]
          \/ \E dependency \in RecordedDependencies :
               \/ TimestampNow(dependency) = 0
               \/ TimestampNow(dependency) > TimestampNow(StaleObject)

\* C24 witness: the record of the object lists no dependency, the map of A is
\* loaded, and the test has answered false for a threshold.
C24_Witness ==
  /\ StaleObject \in DOMAIN dependencies_file["A"]
  /\ dependencies_file["A"][StaleObject] = <<>>
  /\ "A" \in DOMAIN dependencies_per_file_per_package
  /\ StaleObject \in DOMAIN timestamps_by_filename
  /\ \E threshold_timestamp \in DOMAIN set_to_now_after :
       ~StaleNow(threshold_timestamp)

----------------------------------------------------------------------------
(* The package registry and the invocation as a state machine.             *)

InitPackages ==
  /\ IdleIds /\ IdleQueueConfig /\ IdleCons /\ IdleBuild /\ IdleParse
  /\ IdleStale /\ IdleAssets /\ IdleLater
  /\ \E n \in 0..MaxInputs : input_packages \in [1..n -> InputArguments]
  /\ all_known_packages \in BOOLEAN
  /\ local_config \in BOOLEAN
  /\ disk_paths \in SUBSET ExplicitPaths
  /\ invocation_action \in {"Build", "Run"}
  /\ pk_pc = "main"
  /\ packages_to_paths = EmptyMap
  /\ registered_at_init = EmptyMap
  /\ registration_log = <<>>
  /\ unresolved_inputs = {}
  /\ build_returned = TRUE
  /\ exit_code = 0
  /\ package_kinds \in [PackageNames -> PackageKinds]
  /\ global_run_command \in BOOLEAN
  /\ run_queue = <<>>
  /\ run_returned = "none"
  /\ main_calls = <<>>

NextPackages ==
  \/ InitializePackages
  \/ \E failing \in SUBSET PackageNames, run_queued_commands \in BOOLEAN :
       WrappedMain(failing, run_queued_commands)

\* How many Run commands are queued for a package.
RunCommandsFor(package_name) ==
  Cardinality({i \in 1..Len(run_queue) : run_queue[i] = RunCommand(package_name)})

\* The names of the packages the invocation is about.
InputPackageNames ==
  {GetPackageNameFromPath(ForEachInputPackage[i]) :
     i \in 1..Len(ForEachInputPackage)}

SpecPackages == InitPackages /\ [][NextPackages]_vars

\* C15: when an argument of the user does not resolve, BuildPackages returns
\* false and the tool exits with -1, for Build and for Run.
C15_UnresolvedInputFails ==
  (pk_pc = "exited" /\ unresolved_inputs # {}) =>
    (~build_returned /\ exit_code = 0 - 1)

\* The first path handed to RegisterPackagePath under a name.
FirstRegistered(name) ==
  registration_log[
    CHOOSE i \in 1..Len(registration_log) :
      /\ GetPackageNameFromPath(registration_log[i]) = name
      /\ \A j \in 1..(i - 1) :
           GetPackageNameFromPath(registration_log[j]) # name]

\* The i-th raw input is an explicit path that exists, or the empty input.
IsSuppliedPath(i) ==
  \/ Len(RawInputPackages[i]) = 0
  \/ IsPackageAPath(RawInputPackages[i]) /\ PathExists(RawInputPackages[i])

SuppliedPath(i) ==
  IF Len(RawInputPackages[i]) = 0 THEN CurrentPath ELSE RawInputPackages[i]

\* Every path the user supplied (and the working directory for the empty
\* input) holds its name in the registry, the first one if two share a name.
SuppliedPathsHoldTheirNames ==
  \A i \in 1..Len(RawInputPackages) :
    (/\ IsSuppliedPath(i)
     /\ \A j \in 1..(i - 1) :
          IsSuppliedPath(j) =>
            GetPackageNameFromPath(SuppliedPath(j))
              # GetPackageNameFromPath(SuppliedPath(i)))
      => /\ GetPackageNameFromPath(SuppliedPath(i)) \in DOMAIN packages_to_paths
         /\ packages_to_paths[GetPackageNameFromPath(SuppliedPath(i))]
              = SuppliedPath(i)

\* The registry maps every registered name to the first path registered
\* under it, and is as InitializePackages left it.
RegistryIsFirstRegistered ==
  /\ DOMAIN packages_to_paths
       = {GetPackageNameFromPath(registration_log[i]) :
            i \in 1..Len(registration_log)}
  /\ \A name \in DOMAIN packages_to_paths :
       packages_to_paths[name] = FirstRegistered(name)
  /\ packages_to_paths = registered_at_init

\* C35: when BuildPackages or RunPackages has returned false, main has not
\* called RunQueuedCommands, so that no queued command was executed, has still
\* called FlushDependencies and FlushPackageIDs, and has returned -1.
C35_FailedPlanRunsNothing ==
  (pk_pc = "exited" /\ (~build_returned \/ run_returned = "false")) =>
    /\ "RunQueuedCommands" \notin Range(main_calls)
    /\ SubSeq(main_calls, Len(main_calls) - 1, Len(main_calls))
         = <<"FlushDependencies", "FlushPackageIDs">>
    /\ exit_code = 0 - 1

\* C35 witness: an invocation with two input packages of which one could not
\* be planned has ended; the other package was planned all the same.
C35_Witness ==
  /\ pk_pc = "exited"
  /\ ~build_returned
  /\ Len(ForEachInputPackage) = 2
  /\ \E i \in 1..2 :
       package_kinds[GetPackageNameFromPath(ForEachInputPackage[i])] # "nullptr"
  /\ main_calls = <<"BuildPackages", "FlushDependencies", "FlushPackageIDs">>

\* C36: once InitializePackages has run, every path ForEachInputPackage hands
\* out is the path GetPackagePathFromName gives for the name
\* GetPackageNameFromPath makes of it, so that the planner's metadata is that
\* of the package the user named.
C36_NameOfPathLeadsBack ==
  pk_pc \in {"initialized", "exited"} =>
    \A i \in 1..Len(ForEachInputPackage) :
      GetPackagePathFromName(GetPackageNameFromPath(ForEachInputPackage[i]))
        = ForEachInputPackage[i]

\* C20 as stated: after InitializePackages every name maps to the first path
\* registered under it for good, and the paths given on the command line (and
\* the working directory for the empty input) hold their names against the
\* scanned directories.
C20_Original ==
  pk_pc \in {"initialized", "exited"} =>
    (RegistryIsFirstRegistered /\ SuppliedPathsHoldTheirNames)

\* C20 amended: after InitializePackages every name maps to the first path
\* registered under it for good; unless --all was given, the paths given on
\* the command line (and the working directory for the empty input) hold
\* their names against the scanned directories.
C20_FirstRegisteredWins ==
  pk_pc \in {"initialized", "exited"} =>
    /\ RegistryIsFirstRegistered
    /\ ~all_known_packages => SuppliedPathsHoldTheirNames

\* C20 witness: the invocation is over, ./x/foo was given and exists, the
\* scanned /d1 and /d2 both hold a foo, and foo is ./x/foo while bar is the
\* scanned /d2/bar.
C20_Witness ==
  /\ pk_pc = "exited"
  /\ ~all_known_packages
  /\ <<".", "x", "foo">> \in Range(input_packages) \cap disk_paths
  /\ packages_to_paths
       = ("foo" :> <<".", "x", "foo">>) @@ ("bar" :> <<"/", "d2", "bar">>)
  /\ <<"/", "d1", "foo">> \in Range(registration_log)

----------------------------------------------------------------------------
(* The asset walk as a state machine.                                      *)

\* A source was written at some time, also after the planner started; a
\* destination is missing or was written before the planner started.
InitAssets ==
  /\ IdleIds /\ IdleQueueConfig /\ IdleCons /\ IdleParse /\ IdleStale
  /\ IdlePackages /\ IdleLater
  /\ now = MaxStamp + 1
  /\ mtime \in [AssetFiles -> 0..(MaxStamp + 2)]
  /\ \A source \in AssetSources :
       mtime[source] >= 1 /\ mtime[AssetDestination(source)] <= MaxStamp
  /\ dependencies_file = [p \in {"A", "L"} |-> EmptyMap]
  /\ b_pc = "off"
  /\ timestamps_by_filename = EmptyMap
  /\ dependencies_per_file_per_package = EmptyMap
  /\ packages_with_invalidated_dependencies = {}
  /\ planned_commands = EmptyMap
  /\ b_stage = 0
  /\ build_ok = TRUE
  /\ b_verbose = FALSE
  /\ any_failure = FALSE
  /\ clean = FALSE
  /\ touched = {}
  /\ as_pc = "walking"
  /\ asset_walk \in AssetWalks
  /\ asset_log = <<>>

NextAssets == CallCopyAssetIfNewer \/ AssetClockTick

SpecAssets == InitAssets /\ [][NextAssets]_vars

\* The destination's timestamp as the i-th call should see it: the time of
\* the last earlier call that queued a copy to it, the disk's if there is none.
DestinationTimestampAt(i) ==
  LET earlier == {j \in 1..(i - 1) :
                    /\ asset_log[j].destination = asset_log[i].destination
                    /\ asset_log[j].queued}
  IN IF earlier = {} THEN mtime[asset_log[i].destination]
     ELSE asset_log[CHOOSE j \in earlier : \A k \in earlier : k <= j].at

\* The calls of the walk that queued a command, in order.
QueuedCalls == SelectSeq(asset_log, LAMBDA call : call.queued)

\* C23: a CopyAssets command is queued for an asset file exactly if the
\* source's timestamp is greater than the destination's, which is 0 for a
\* missing destination and the time of the queuing once a copy to it has been
\* queued in this invocation; the queue holds the copy commands of those
\* files, in the order of the walk, and the destination's cached timestamp is
\* then the time of the last queuing.
C23_CopyQueuedIffSourceNewer ==
  /\ \A i \in 1..Len(asset_log) :
       /\ asset_log[i].queued
            <=> mtime[asset_log[i].source] > DestinationTimestampAt(i)
       /\ asset_log[i].queued =>
            /\ asset_log[i].destination \in DOMAIN timestamps_by_filename
            /\ timestamps_by_filename[asset_log[i].destination]
                 >= asset_log[i].at
  /\ QueuedCount(planned_commands) = Len(QueuedCalls)
  /\ \A i \in 1..Len(QueuedCalls) :
       planned_commands[StageCopyAssets][i]
         = CopyCommand(QueuedCalls[i].source, QueuedCalls[i].destination)

\* C23 witness: assets1/x was queued for the missing destination/x, and
\* assets2/x, newer than the destination on disk but not newer than the time
\* of that queuing, was not queued.
C23_Witness ==
  /\ asset_walk = <<>>
  /\ mtime[<<"destination", "x">>] = 0
  /\ mtime[<<"assets2", "x">>] = MaxStamp
  /\ \E i, j \in 1..Len(asset_log) :
       /\ i < j
       /\ asset_log[i].source = <<"assets1", "x">> /\ asset_log[i].queued
       /\ asset_log[j].source = <<"assets2", "x">> /\ ~asset_log[j].queued

----------------------------------------------------------------------------
(* The planner of one invocation on any disk: the files of A and L with any *)
(* timestamps that are not later than the clock.                            *)

\* The dependencies file of a package after a build that compiled each of its
\* sources: every object depends on its source.
DependenciesFileAfterBuild(package_name) ==
  [object_file \in {ObjectFile(f) : f \in Range(SourceFiles(package_name))} |->
     <<<<"source", object_file[2]>>>>]

InitPlan ==
  /\ IdleIds /\ IdleQueueConfig /\ IdleParse /\ IdleStale
  /\ IdlePackages /\ IdleAssets /\ IdleLater
  /\ package_configs \in BuildScenarios
  /\ metadata_by_package_name = EmptyMap
  /\ metadata_requests = 0
  /\ last_metadata = <<"none", "none">>
  /\ first_consolidated = EmptyMap
  /\ now = MaxStamp + 1
  /\ \E objects \in [{"a1", "a2", "l1"} -> 0..MaxStamp],
        outputs \in [{"A", "L"} -> 0..MaxStamp],
        config_of_a \in 0..MaxStamp,
        config_of_l \in 1..MaxStamp,
        global_config \in 1..MaxStamp :
       mtime = [f \in Files |->
                  IF f[1] = "source" THEN 1
                  ELSE IF f[1] = "object" THEN objects[f[2]]
                  ELSE IF f[1] = "temp" THEN outputs[f[2]]
                  ELSE IF f = ConfigFile("A") THEN config_of_a
                  ELSE IF f = ConfigFile("L") THEN config_of_l
                  ELSE global_config]
  /\ dependencies_file
       \in {[p \in {"A", "L"} |-> EmptyMap],
            [p \in {"A", "L"} |-> DependenciesFileAfterBuild(p)]}
  /\ b_pc = "off"
  /\ timestamps_by_filename = EmptyMap
  /\ dependencies_per_file_per_package = EmptyMap
  /\ packages_with_invalidated_dependencies = {}
  /\ planned_commands = EmptyMap
  /\ b_stage = 0
  /\ build_ok = TRUE
  /\ b_verbose = FALSE
  /\ any_failure = FALSE
  /\ clean = FALSE
  /\ touched = {}

NextPlan == \E v \in BOOLEAN : BuildPackages(v)

SpecPlan == InitPlan /\ [][NextPlan]_vars

\* What LoadConfigFileForPackage is to hand back for the package: the newest
\* of its own config file and the global config files.
ConfigTimestamp(package_name) ==
  Max(mtime[GlobalConfigFile], mtime[ConfigFile(package_name)])

\* C30: the metadata_timestamp of every loaded package is at least the
\* newest of its own config file and the global config files, and for a
\* package that consolidation has nothing to add to it is equal to it, also
\* for a package without a config file.
C30_TimestampCoversGlobalConfig ==
  b_pc = "planned" =>
    \A package_name \in DOMAIN metadata_by_package_name :
      /\ metadata_by_package_name[package_name].metadata_timestamp
           >= ConfigTimestamp(package_name)
      /\ metadata_by_package_name[package_name].dependencies = <<>> =>
           metadata_by_package_name[package_name].metadata_timestamp
             = ConfigTimestamp(package_name)

----------------------------------------------------------------------------
(* string_replace.cc: the placeholder table and ReplacePlaceholdersInString *)
(* on every template of up to MaxTemplateLen characters.  A string is a    *)
(* sequence of characters, positions count from 0 as in the code.  The     *)
(* character d stands for the name "deps file".                            *)

npos == 0 - 1

\* std::string::find(pattern, pos): the first position at or after pos where
\* pattern begins, npos if there is none.
find(str, pattern, pos) ==
  LET hits == {i \in pos..(Len(str) - Len(pattern)) :
                 SubSeq(str, i + 1, i + Len(pattern)) = pattern}
  IN IF hits = {} THEN npos
     ELSE CHOOSE i \in hits : \A j \in hits : i <= j

\* std::string::substr(pos, n)
substr(str, pos, n) == SubSeq(str, pos + 1, pos + n)

\* std::string::replace(pos, n, with)
replace(str, pos, n, with) ==
  SubSeq(str, 1, pos) \o with \o SubSeq(str, pos + n + 1, Len(str))

\* SetPlaceholder: placeholders_and_values afterwards.
SetPlaceholder(table, placeholder, str) ==
  [name \in DOMAIN table \cup {placeholder} |->
     IF name = placeholder THEN str ELSE table[name]]

\* pos after a replacement that steps over one character only.
AfterReplacementByOne(pos, value) == pos + 1

\* pos += it->second.length(): move past the replacement.
AfterReplacement(pos, value) == pos + Len(value)

\* The while loop of ReplacePlaceholdersInString; rounds counts its rounds.
RECURSIVE ReplaceLoop(_, _, _, _)
ReplaceLoop(table, str, pos, rounds) ==
  With(find(str, <<"$", "{">>, pos), LAMBDA found :
    IF found = npos THEN [str |-> str, rounds |-> rounds]
    ELSE With(find(str, <<"}">>, found + 2), LAMBDA end_pos :
      IF end_pos = npos THEN [str |-> str, rounds |-> rounds + 1]
      ELSE With(substr(str, found + 2, end_pos - found - 2), LAMBDA placeholder :
        IF placeholder \in DOMAIN table
        THEN ReplaceLoop(table,
                         replace(str, found, end_pos - found + 1,
                                 table[placeholder]),
                         AfterReplacement(found, table[placeholder]),
                         rounds + 1)
        ELSE ReplaceLoop(table,
                         replace(str, found, end_pos - found + 1, <<>>),
                         found, rounds + 1))))

\* ReplacePlaceholdersInString: str afterwards, and the rounds of the loop.
ReplacePlaceholdersInString(table, str) == ReplaceLoop(table, str, 0, 0)

\* The literal ${deps file}.
DepsFilePlaceholder == <<"$", "{", "d", "}">>

TemplateCharacters == {"$", "{", "}", "d"}

Templates == UNION {[1..n -> TemplateCharacters] : n \in 0..MaxTemplateLen}

\* The placeholder names that get a value: "deps file" and the empty name.
PlaceholderNames == {<<"d">>, <<>>}

PlaceholderValues == {<<>>, <<"$">>, DepsFilePlaceholder}

\* InitializePlaceholders of build.cc
InitializePlaceholders ==
  /\ rp_pc = "planning"
  /\ placeholders_and_values' =
       SetPlaceholder(placeholders_and_values, <<"d">>, DepsFilePlaceholder)
  /\ UNCHANGED <<rp_template, rp_command, rp_pc>>
  /\ UNCHANGED <<earlierVars, linkVars, repoVars, storeVars>>

\* Some caller registers a value.
CallSetPlaceholder(placeholder, str) ==
  /\ rp_pc = "planning"
  /\ placeholders_and_values' =
       SetPlaceholder(placeholders_and_values, placeholder, str)
  /\ UNCHANGED <<rp_template, rp_command, rp_pc>>
  /\ UNCHANGED <<earlierVars, linkVars, repoVars, storeVars>>

\* BuildPackage makes a Compile command of the template: command->command =
\* build_command_itr->second; ReplacePlaceholdersInString(command->command).
QueueCompileCommand ==
  /\ rp_pc = "planning"
  /\ rp_pc' = "planned"
  /\ rp_command' = ReplacePlaceholdersInString(placeholders_and_values,
                                               rp_template)
  /\ UNCHANGED <<placeholders_and_values, rp_template>>
  /\ UNCHANGED <<earlierVars, linkVars, repoVars, storeVars>>

InitReplace ==
  /\ IdleIds /\ IdleQueueConfig /\ IdleCons /\ IdleBuild /\ IdleParse
  /\ IdleStale /\ IdlePackages /\ IdleAssets /\ IdleLink /\ IdleRepos /\ IdleStore
  /\ placeholders_and_values = EmptyMap
  /\ rp_template \in Templates
  /\ rp_command = [str |-> <<>>, rounds |-> 0]
  /\ rp_pc = "planning"

NextReplace ==
  \/ InitializePlaceholders
  \/ \E placeholder \in PlaceholderNames, str \in PlaceholderValues :
       CallSetPlaceholder(placeholder, str)
  \/ QueueCompileCommand

SpecReplace == InitReplace /\ [][NextReplace]_vars

\* The value a placeholder name stands for: empty if it is not registered.
ValueOfPlaceholder(name) ==
  IF name \in DOMAIN placeholders_and_values
  THEN placeholders_and_values[name] ELSE <<>>

\* The text with each ${name} of it, from left to right, replaced by the
\* value of the name; what is put in is not looked at again, and from a "${"
\* that no "}" follows the text stays as it is.
RECURSIVE Substituted(_)
Substituted(text) ==
  LET opening == find(text, <<"$", "{">>, 0)
      closing == find(text, <<"}">>, opening + 2)
  IN IF opening = npos \/ closing = npos THEN text
     ELSE SubSeq(text, 1, opening)
            \o ValueOfPlaceholder(SubSeq(text, opening + 3, closing))
            \o Substituted(SubSeq(text, closing + 2, Len(text)))

\* The names of the placeholders of a text, as the scan from left to right
\* meets them.
RECURSIVE PlaceholdersOf(_)
PlaceholdersOf(text) ==
  LET opening == find(text, <<"$", "{">>, 0)
      closing == find(text, <<"}">>, opening + 2)
  IN IF opening = npos \/ closing = npos THEN {}
     ELSE {SubSeq(text, opening + 3, closing)}
            \cup PlaceholdersOf(SubSeq(text, closing + 2, Len(text)))

Contains(str, pattern) == find(str, pattern, 0) # npos

\* "deps file" is registered as the literal ${deps file}.
DepsFileKept ==
  /\ <<"d">> \in DOMAIN placeholders_and_values
  /\ placeholders_and_values[<<"d">>] = DepsFilePlaceholder

\* ReplacePlaceholdersInString ends after at most one round for every three
\* characters of the template (and one more) and leaves the template with
\* each placeholder replaced once, from left to right.
ReplacedOnceLeftToRight ==
  /\ rp_command.str = Substituted(rp_template)
  /\ rp_command.rounds <= (Len(rp_template) \div 3) + 1

\* C33 as stated: ReplacePlaceholdersInString terminates and replaces each
\* placeholder once from left to right, and with "deps file" registered as
\* the literal ${deps file} every Compile command whose template contains
\* ${deps file} still contains it.
C33_Original ==
  rp_pc = "planned" =>
    /\ ReplacedOnceLeftToRight
    /\ (DepsFileKept /\ Contains(rp_template, DepsFilePlaceholder))
         => Contains(rp_command.str, DepsFilePlaceholder)

\* C33 amended: the same, for every template that holds ${deps file} as a
\* placeholder of its own, that is not inside the name of a placeholder that
\* an earlier "${" opens.
C33_DepsFilePlaceholderSurvives ==
  rp_pc = "planned" =>
    /\ ReplacedOnceLeftToRight
    /\ (DepsFileKept /\ <<"d">> \in PlaceholdersOf(rp_template))
         => Contains(rp_command.str, DepsFilePlaceholder)

\* C33 witness: a command was made of a template that holds ${deps file}
\* and then a "${" that nothing closes, with "deps file" registered as the
\* literal: the loop ran twice and the command is the template.
C33_Witness ==
  /\ rp_pc = "planned"
  /\ DepsFileKept
  /\ rp_template = DepsFilePlaceholder \o <<"$", "{">>
  /\ rp_command.str = rp_template
  /\ rp_command.rounds = 2

----------------------------------------------------------------------------
(* build.cc, BuildPackage: the link commands of the applications of one    *)
(* invocation.  The placeholder table is the one of the process.  Of a     *)
(* string, the words that the substitution does not look into (a name, a   *)
(* path, "ld") stand as one character.                                     *)

\* The name of the i-th application and its output path.
ApplicationName(i) == <<"A1", "A2", "A3", "A4">>[i]

\* std::quoted
quoted(str) == <<"\"", str, "\"">>

RECURSIVE BuildStringOfStringsFromVectorOfStringAndPrefix(_, _)
BuildStringOfStringsFromVectorOfStringAndPrefix(prefix, paths) ==
  IF paths = <<>> THEN <<>>
  ELSE <<" ", prefix>> \o quoted(Head(paths))
         \o BuildStringOfStringsFromVectorOfStringAndPrefix(prefix, Tail(paths))

\* metadata->linker_command of an application whose config names the package,
\* the shared libraries and the output:
\* "ld ${package name}${shared_libraries} -o ${out}".
LinkerCommand ==
  <<"ld", " ", "$", "{", "package name", "}", "$", "{", "shared_libraries", "}",
    " ", "-o", " ", "$", "{", "out", "}">>

\* if (!metadata->dynamically_linked_libaries.empty()) SetPlaceholder(...)
SetSharedLibraries(table, libraries) ==
  IF libraries # <<>>
  THEN SetPlaceholder(table, <<"shared_libraries">>,
                      BuildStringOfStringsFromVectorOfStringAndPrefix(
                        "-l ", libraries))
  ELSE table

\* BuildPackage for the next application: the placeholders of the package,
\* and, if it requires linking, the link command.
BuildApplication(requires_linking) ==
  /\ lk_planned < Len(lk_applications)
  /\ lk_planned' = lk_planned + 1
  /\ \E named \in {SetPlaceholder(placeholders_and_values, <<"package name">>,
                                  <<ApplicationName(lk_planned + 1)>>)} :
       IF ~requires_linking
       THEN /\ placeholders_and_values' = named
            /\ UNCHANGED lk_commands
       ELSE \E table \in {SetSharedLibraries(
                            SetPlaceholder(named, <<"out">>,
                                           quoted(ApplicationName(lk_planned + 1))),
                            lk_applications[lk_planned + 1])} :
              /\ placeholders_and_values' = table
              /\ lk_commands' =
                   Append(lk_commands,
                          [package |-> lk_planned + 1,
                           command |->
                             ReplacePlaceholdersInString(table, LinkerCommand).str])
  /\ UNCHANGED <<lk_applications, rp_template, rp_command, rp_pc>>
  /\ UNCHANGED <<earlierVars, repoVars, storeVars>>

\* dynamically_linked_libaries of an application.
LibraryLists == {<<>>, <<"x">>, <<"y">>, <<"x", "y">>}

InitLink ==
  /\ IdleIds /\ IdleQueueConfig /\ IdleCons /\ IdleBuild /\ IdleParse
  /\ IdleStale /\ IdlePackages /\ IdleAssets /\ IdleReplace /\ IdleRepos /\ IdleStore
  /\ \E n \in 1..MaxApplications : lk_applications \in [1..n -> LibraryLists]
  /\ lk_planned = 0
  /\ lk_commands = <<>>

NextLink == \E requires_linking \in BOOLEAN : BuildApplication(requires_linking)

SpecLink == InitLink /\ [][NextLink]_vars

\* The link command of the i-th application with the values of that
\* application in it.
OwnLinkCommand(i) ==
  <<"ld", " ", ApplicationName(i)>>
    \o BuildStringOfStringsFromVectorOfStringAndPrefix("-l ", lk_applications[i])
    \o <<" ", "-o", " ">> \o quoted(ApplicationName(i))

\* C37: every queued link command of an application holds, for
\* ${shared_libraries} as for the other placeholders, the text made of that
\* application's own values: of its own dynamically linked libraries, and
\* nothing if it has none.
C37_OwnSharedLibraries ==
  \A k \in 1..Len(lk_commands) :
    lk_commands[k].command = OwnLinkCommand(lk_commands[k].package)

----------------------------------------------------------------------------
(* third_party.cc: the repository map.  A process loads the map once,      *)
(* asks for the directories of repositories and flushes the map; the next  *)
(* process starts from the file and the directories the earlier ones left. *)
(* The file is a record: whether it parses as JSON, and for each of the    *)
(* two members whether it is missing, of a wrong type or of the right      *)
(* type, with its value.                                                   *)

RepositoryKeys == {"git#a", "git#b"}

\* What json j; f >> j; j[...].get<...>() makes of the file: the map and the
\* next ID after the try block, and whether an exception was caught.
\* repositories_to_ids is assigned before nextRepositoryId is read.
LoadedRepositories(file, map, next) ==
  IF file.json # "object"
  THEN [map |-> map, next |-> next, failed |-> TRUE]
  ELSE IF file.map_kind # "map"
  THEN [map |-> map, next |-> next, failed |-> TRUE]
  ELSE IF file.next_kind # "int"
  THEN [map |-> file.map, next |-> next, failed |-> TRUE]
  ELSE [map |-> file.map, next |-> file.next, failed |-> FALSE]

\* LoadRepositoriesMap
LoadRepositoriesMap ==
  /\ repo_pc = "running"
  /\ ~repository_map_loaded
  /\ repository_map_loaded' = TRUE
  /\ IF repositories_file.json # "absent"
     THEN \E loaded \in {LoadedRepositories(repositories_file,
                                            repositories_to_ids,
                                            next_repository_id)} :
            /\ repositories_to_ids' = loaded.map
            /\ next_repository_id' = loaded.next
            /\ load_failed' = loaded.failed
     ELSE /\ next_repository_id' = 0
          /\ UNCHANGED <<repositories_to_ids, load_failed>>
  /\ UNCHANGED <<repositories_file, repository_dirs, needs_flushing, repo_pc,
                 repo_runs, removed_registered>>
  /\ UNCHANGED <<earlierVars, replVars, linkVars, storeVars>>

\* LoadRepository up to the point where the directory of the repository is
\* there: GetRepositoryDirectory(key), then the download or the clone, which
\* makes the directory.
LoadRepository(key) ==
  /\ repo_pc = "running"
  /\ repository_map_loaded
  /\ IF key \notin DOMAIN repositories_to_ids
     THEN /\ next_repository_id < MaxRepositoryId
          /\ next_repository_id' = next_repository_id + 1
          /\ repositories_to_ids' =
               [k \in DOMAIN repositories_to_ids \cup {key} |->
                  IF k = key THEN next_repository_id
                  ELSE repositories_to_ids[k]]
          /\ needs_flushing' = TRUE
          \* if (new_repo && exists(dir)) remove_all(dir)
          /\ removed_registered' =
               IF next_repository_id \in repository_dirs
               THEN removed_registered
                      \cup {k \in DOMAIN repositories_to_ids :
                              repositories_to_ids[k] = next_repository_id}
               ELSE removed_registered
          /\ repository_dirs' = repository_dirs \cup {next_repository_id}
     ELSE /\ repository_dirs' =
               repository_dirs \cup {repositories_to_ids[key]}
          /\ UNCHANGED <<next_repository_id, repositories_to_ids,
                         needs_flushing, removed_registered>>
  /\ UNCHANGED <<repositories_file, repository_map_loaded, repo_pc, repo_runs,
                 load_failed>>
  /\ UNCHANGED <<earlierVars, replVars, linkVars, storeVars>>

\* FlushRepositoriesMap
FlushRepositoriesMap ==
  /\ repo_pc = "running"
  /\ repository_map_loaded
  /\ repositories_file' =
       IF needs_flushing
       THEN [json |-> "object", map_kind |-> "map", map |-> repositories_to_ids,
             next_kind |-> "int", next |-> next_repository_id]
       ELSE repositories_file
  /\ needs_flushing' = FALSE
  /\ UNCHANGED <<repository_dirs, repositories_to_ids, next_repository_id,
                 repository_map_loaded, repo_pc, repo_runs, load_failed,
                 removed_registered>>
  /\ UNCHANGED <<earlierVars, replVars, linkVars, storeVars>>

\* The process ends and the next one starts with the statics of
\* third_party.cc as they are initialized.
NextProcess ==
  /\ repo_pc = "running"
  /\ repo_runs < MaxRuns
  /\ repo_runs' = repo_runs + 1
  /\ repositories_to_ids' = EmptyMap
  /\ next_repository_id' = 0
  /\ needs_flushing' = FALSE
  /\ repository_map_loaded' = FALSE
  /\ load_failed' = FALSE
  /\ removed_registered' = {}
  /\ UNCHANGED <<repositories_file, repository_dirs, repo_pc>>
  /\ UNCHANGED <<earlierVars, replVars, linkVars, storeVars>>

\* The files the first process may find: none, one that is not JSON, and
\* objects whose members are missing, of a wrong type, or as FlushRepositoriesMap
\* writes them for no, one or two repositories.
RepositoryFiles ==
  {NoRepositoriesFile,
   [json |-> "invalid", map_kind |-> "missing", map |-> EmptyMap,
    next_kind |-> "missing", next |-> 0]}
  \cup {[json |-> "object", map_kind |-> map_kind,
         map |-> IF map_kind = "map" THEN written.map ELSE EmptyMap,
         next_kind |-> next_kind,
         next |-> IF next_kind = "int" THEN written.next ELSE 0] :
          map_kind \in {"missing", "ill-typed", "map"},
          next_kind \in {"missing", "ill-typed", "int"},
          written \in {[map |-> EmptyMap, next |-> 0],
                       [map |-> [k \in {"git#a"} |-> 0], next |-> 1],
                       [map |-> [k \in RepositoryKeys |->
                                   IF k = "git#a" THEN 0 ELSE 1],
                        next |-> 2]}}

InitRepos ==
  /\ IdleIds /\ IdleQueueConfig /\ IdleCons /\ IdleBuild /\ IdleParse
  /\ IdleStale /\ IdlePackages /\ IdleAssets /\ IdleReplace /\ IdleLink
  /\ IdleStore
  /\ repositories_file \in RepositoryFiles
  /\ repository_dirs \in SUBSET (0..1)
  /\ \A key \in DOMAIN repositories_file.map :
       repositories_file.map[key] \in repository_dirs
  /\ repositories_to_ids = EmptyMap
  /\ next_repository_id = 0
  /\ needs_flushing = FALSE
  /\ repository_map_loaded = FALSE
  /\ repo_pc = "running"
  /\ repo_runs = 1
  /\ load_failed = FALSE
  /\ removed_registered = {}

NextRepos ==
  \/ LoadRepositoriesMap
  \/ \E key \in RepositoryKeys : LoadRepository(key)
  \/ FlushRepositoriesMap
  \/ NextProcess

SpecRepos == InitRepos /\ [][NextRepos]_vars

\* C32: a load that could not read the file completely leaves the empty map
\* with next ID 0 (until the process allocates), and so no two keys of the
\* map have the same ID and the directory of no key of the map is removed.
C32_UnreadableFileLoadsNothing ==
  /\ (repository_map_loaded /\ load_failed /\ ~needs_flushing) =>
       repositories_to_ids = EmptyMap /\ next_repository_id = 0
  /\ \A k1, k2 \in DOMAIN repositories_to_ids :
       k1 # k2 => repositories_to_ids[k1] # repositories_to_ids[k2]
  /\ removed_registered = {}

----------------------------------------------------------------------------
(* dependencies.cc: the dependency store and the text of its files.  A     *)
(* path is the sequence of the pieces its text has between newlines: a     *)
(* newline-free path has one piece, and the empty path is the one piece    *)
(* "".  Writing a path followed by std::endl writes its pieces as lines;    *)
(* std::getline reads one line, which becomes a path of one piece.         *)

\* The paths of this machine, in the order std::map keeps them as keys:
\* "", "a", "a\nb", "b".
StorePaths == << <<"">>, <<"a">>, <<"a", "b">>, <<"b">> >>

DependencyLists ==
  { <<>>, << <<"a">> >>, << <<"a">>, <<"b">> >>, << <<"b">>, <<"a">> >>,
    << <<"">> >>, << <<"a", "b">> >> }

\* output_file << path.string() << std::endl, for each path of a list.
RECURSIVE LinesOf(_)
LinesOf(paths) ==
  IF paths = <<>> THEN <<>> ELSE Head(paths) \o LinesOf(Tail(paths))

\* A block without the blank line that ends it.
BlockWithoutBlankLine(file, dependencies) == file \o LinesOf(dependencies)

\* The body of the loop of WriteDependenciesForPackage: the object file, its
\* dependencies, a blank line.
Block(file, dependencies) == file \o LinesOf(dependencies) \o <<"">>

\* WriteDependenciesForPackage: the blocks of the keys from index i on, in
\* the order of the map.
RECURSIVE WriteBlocks(_, _)
WriteBlocks(dependencies_per_file, i) ==
  IF i > Len(StorePaths) THEN <<>>
  ELSE (IF StorePaths[i] \in DOMAIN dependencies_per_file
        THEN Block(StorePaths[i], dependencies_per_file[StorePaths[i]])
        ELSE <<>>)
       \o WriteBlocks(dependencies_per_file, i + 1)

WriteDependenciesForPackage(dependencies_per_file) ==
  [is_open |-> TRUE, lines |-> WriteBlocks(dependencies_per_file, 1)]

\* The loop of MaybeLoadDependenciesForPackage from line i on.  current is
\* the key `dependencies` points into, <<>> for nullptr.  insert keeps the
\* list of a key that is in the map already.
RECURSIVE LoadLines(_, _, _, _)
LoadLines(lines, i, dependencies_per_file, current) ==
  IF i > Len(lines) THEN dependencies_per_file
  ELSE IF lines[i] = ""
  THEN LoadLines(lines, i + 1, dependencies_per_file, <<>>)
  ELSE IF current = <<>>
  THEN LoadLines(lines, i + 1,
                 IF <<lines[i]>> \in DOMAIN dependencies_per_file
                 THEN dependencies_per_file
                 ELSE MapPut(dependencies_per_file, <<lines[i]>>, <<>>),
                 <<lines[i]>>)
  ELSE LoadLines(lines, i + 1,
                 [dependencies_per_file EXCEPT
                    ![current] = Append(@, <<lines[i]>>)],
                 current)

MaybeLoadDependenciesForPackage(file) ==
  IF ~file.is_open THEN EmptyMap ELSE LoadLines(file.lines, 1, EmptyMap, <<>>)

\* GetDependenciesForPackage on the store: the map of a package that is not
\* in the store yet is loaded from its file.
StoreWith(store, package_id) ==
  IF package_id \in DOMAIN store THEN store
  ELSE MapPut(store, package_id,
              MaybeLoadDependenciesForPackage(ds_files[package_id]))

\* AreDependenciesNewerThanFile, for what it does to the store.
CallGetDependencies(package_id) ==
  /\ ds_pc = "running"
  /\ package_id \notin DOMAIN ds_dependencies
  /\ ds_dependencies' = StoreWith(ds_dependencies, package_id)
  /\ UNCHANGED <<ds_files, ds_invalidated, ds_pc, ds_sets, ds_runs, ds_written,
                 ds_changed, ds_rewritten, ds_last_set>>
  /\ UNCHANGED <<earlierVars, replVars, linkVars, repoVars>>

\* SetDependenciesOfFile
CallSetDependenciesOfFile(package_id, file, dependencies) ==
  /\ ds_pc = "running"
  /\ ds_sets < MaxSets
  /\ ds_sets' = ds_sets + 1
  /\ \E loaded \in {StoreWith(ds_dependencies, package_id)} :
     \E result \in {SetDependenciesOfFile(loaded, ds_invalidated, package_id,
                                          file, dependencies)} :
       /\ ds_dependencies' = result.deps
       /\ ds_invalidated' = result.invalidated
       /\ ds_changed' = IF result.deps[package_id] # loaded[package_id]
                        THEN ds_changed \cup {package_id}
                        ELSE ds_changed
       /\ ds_last_set' =
            [called |-> TRUE, package_id |-> package_id,
             equal |-> (file \in DOMAIN loaded[package_id]
                        /\ loaded[package_id][file] = dependencies),
             dependencies |-> loaded[package_id],
             invalidated |-> ds_invalidated]
  /\ UNCHANGED <<ds_files, ds_pc, ds_runs, ds_written, ds_rewritten>>
  /\ UNCHANGED <<earlierVars, replVars, linkVars, repoVars>>

\* FlushDependencies, at the end of main.
FlushStore ==
  /\ ds_pc = "running"
  /\ ds_pc' = "flushed"
  /\ ds_files' =
       [p \in StorePackageIds |->
          IF p \in ds_invalidated
          THEN WriteDependenciesForPackage(ds_dependencies[p])
          ELSE ds_files[p]]
  /\ ds_written' =
       [p \in DOMAIN ds_written \cup ds_invalidated |->
          IF p \in ds_invalidated THEN ds_dependencies[p] ELSE ds_written[p]]
  /\ ds_rewritten' = ds_invalidated
  /\ UNCHANGED <<ds_dependencies, ds_invalidated, ds_sets, ds_runs, ds_changed,
                 ds_last_set>>
  /\ UNCHANGED <<earlierVars, replVars, linkVars, repoVars>>

\* The next invocation: the statics of dependencies.cc are empty again.
NextInvocation ==
  /\ ds_pc = "flushed"
  /\ ds_runs < MaxRuns
  /\ ds_runs' = ds_runs + 1
  /\ ds_pc' = "running"
  /\ ds_dependencies' = EmptyMap
  /\ ds_invalidated' = {}
  /\ ds_changed' = {}
  /\ ds_rewritten' = {}
  /\ ds_last_set' = NoSet
  /\ UNCHANGED <<ds_files, ds_sets, ds_written>>
  /\ UNCHANGED <<earlierVars, replVars, linkVars, repoVars>>

InitStore ==
  /\ IdleIds /\ IdleQueueConfig /\ IdleCons /\ IdleBuild /\ IdleParse
  /\ IdleStale /\ IdlePackages /\ IdleAssets /\ IdleReplace /\ IdleLink
  /\ IdleRepos
  /\ ds_files = [p \in StorePackageIds |-> NoDependenciesFile]
  /\ ds_dependencies = EmptyMap
  /\ ds_invalidated = {}
  /\ ds_pc = "running"
  /\ ds_sets = 0
  /\ ds_runs = 1
  /\ ds_written = EmptyMap
  /\ ds_changed = {}
  /\ ds_rewritten = {}
  /\ ds_last_set = NoSet

NextStore ==
  \/ \E package_id \in StorePackageIds : CallGetDependencies(package_id)
  \/ \E package_id \in StorePackageIds :
     \E file \in Range(StorePaths) :
     \E dependencies \in DependencyLists :
       CallSetDependenciesOfFile(package_id, file, dependencies)
  \/ FlushStore
  \/ NextInvocation

SpecStore == InitStore /\ [][NextStore]_vars

\* A path that is not empty and has no newline in it.
PlainPath(path) == Len(path) = 1 /\ path[1] # ""

\* A map that holds only such paths.
PlainMap(dependencies_per_file) ==
  \A file \in DOMAIN dependencies_per_file :
    /\ PlainPath(file)
    /\ \A i \in 1..Len(dependencies_per_file[file]) :
         PlainPath(dependencies_per_file[file][i])

\* The map of a package came from its file and no call has changed it.
AsLoaded(package_id) ==
  /\ ds_runs > 1
  /\ package_id \in DOMAIN ds_dependencies
  /\ package_id \notin ds_changed

\* The round trip with every map, plain or not.
C40_EveryMapComesBack ==
  \A p \in DOMAIN ds_written :
    AsLoaded(p) => ds_dependencies[p] = ds_written[p]

\* C40: a map of plain paths that WriteDependenciesForPackage wrote is the map
\* a later invocation loads; SetDependenciesOfFile with the stored list leaves
\* the store and the invalidated packages as they were; FlushDependencies
\* writes only packages whose map a call changed.
C40_StoreRoundTrip ==
  /\ \A p \in DOMAIN ds_written :
       (AsLoaded(p) /\ PlainMap(ds_written[p])) =>
         ds_dependencies[p] = ds_written[p]
  /\ (ds_last_set.called /\ ds_last_set.equal) =>
       /\ ds_dependencies[ds_last_set.package_id] = ds_last_set.dependencies
       /\ ds_invalidated = ds_last_set.invalidated
  /\ ds_rewritten \subseteq ds_changed

\* A later invocation has loaded a written map of two objects, one of them
\* with no dependencies, and a call with the stored list has been made.
C40_Witness ==
  /\ ds_runs = 2
  /\ ds_pc = "flushed"
  /\ 1 \in DOMAIN ds_written
  /\ 1 \in DOMAIN ds_dependencies
  /\ 1 \notin ds_changed
  /\ ds_rewritten = {}
  /\ ds_written[1] = (<<"a">> :> <<>>) @@ (<<"b">> :> << <<"b">>, <<"a">> >>)
  /\ ds_dependencies[1] = ds_written[1]
  /\ ds_last_set.called /\ ds_last_set.equal /\ ds_last_set.package_id = 1

====
